---------------------------- MODULE Spec2Model ----------------------------
(***************************************************************************)
(* Market Peak Analysis Service (src/index.js): the aggregation-and-       *)
(* assessment pipeline as a state machine.                                 *)
(*                                                                         *)
(*   - the indicator listener (latestData.BULL_PEAK, listeners)            *)
(*   - the daily closes cache (dailyClosesCache, refreshDailyClosesCache,  *)
(*     getCachedDailyCloses)                                               *)
(*   - one analyze() run per trigger (cron or POST /api/analysis/trigger): *)
(*     buildPromptData -> callLLM -> parseJsonFromText -> validateOutput   *)
(*     -> storeResult                                                      *)
(*                                                                         *)
(* Every await on an external call is a suspension point: the run's pc     *)
(* names the call it waits for, and the code between two awaits is one     *)
(* action.                                                                 *)
(***************************************************************************)
EXTENDS Integers, Sequences, FiniteSets, TLC

(***************************************************************************)
(* Bounds of the model.                                                    *)
(***************************************************************************)
\* analyze() runs that may be triggered in one behaviour
MaxRuns == 2
\* inbound events of the indicator subscription in one behaviour
MaxEvents == 2
\* refreshes of the daily cache started by the startup call and the timer
MaxRefreshes == 2
\* tokens of a completion text in the extraction specification
MaxText == 4
\* points of a raw daily response in the daily-series specification
MaxRaw == 3
\* distinct timestamps of raw daily points
MaxTs == 2
\* stands for the 900 of .slice(-900): the cap on a cached daily series,
\* scaled down so that responses longer than the cap are enumerated
DailyCap == 2

\* documents the store holds when the process starts, at most
MaxStored == 51
\* cleanup() calls followed (SIGINT and SIGTERM may both arrive)
MaxCleanups == 2
\* points of the longest recent window answered: past stride times cap
LongWindow == 1446
\* pieces of the longest template text
MaxTemplate == 3
\* segments (prose, fenced blocks) of the longest segmented completion
MaxSegments == 3

Assets == {"bitcoin", "ethereum", "solana"}

(***************************************************************************)
(* JSON values.  Every value is a record, tagged by t.  A number is n, or  *)
(* n + 1/2 when frac, or Infinity (the parse of 1e999) when ~fin.          *)
(***************************************************************************)
Null == [t |-> "null"]
Undefined == [t |-> "undefined"]
Bool(b) == [t |-> "bool", b |-> b]
Num(n) == [t |-> "num", n |-> n, frac |-> FALSE, fin |-> TRUE]
NumHalf(n) == [t |-> "num", n |-> n, frac |-> TRUE, fin |-> TRUE]
Infinity == [t |-> "num", n |-> 0, frac |-> FALSE, fin |-> FALSE]
Str(s) == [t |-> "str", s |-> s]
Arr(es) == [t |-> "arr", e |-> es]
Obj(f) == [t |-> "obj", f |-> f]

\* typeof v === "number"
IsNumber(v) == v.t = "num"
\* Number.isFinite(v)
IsFinite(v) == v.t = "num" /\ v.fin
\* v < 1 and v > 100 on numbers
LessThanOne(v) == v.fin /\ v.n < 1
GreaterThanHundred(v) == ~v.fin \/ v.n > 100 \/ (v.n = 100 /\ v.frac)
\* Array.isArray(v)
IsArray(v) == v.t = "arr"
\* (k in v): a TypeError on a primitive, own keys on an object, and none of
\* the verdict's keys on an array
InThrows(v) == v.t \notin {"obj", "arr"}
HasKey(v, k) == v.t = "obj" /\ k \in DOMAIN v.f

(***************************************************************************)
(* Completion texts.  A text is a sequence of tokens; a token is a piece   *)
(* of punctuation or prose, or a JSON value standing for its own           *)
(* serialisation (an object token starts and ends with a brace).           *)
(***************************************************************************)
Tok(c) == [t |-> "tok", c |-> c]
\* the opening of a fenced block labelled json: three backticks and the
\* word json (it starts with the three backticks of a fence)
FenceJson == Tok("fence_json")
\* three backticks
Fence == Tok("fence")
\* white space
Ws == Tok(" ")
\* a word of prose: no brace, no backtick, no JSON
Prose == Tok("prose")
LBrace == Tok("{")
RBrace == Tok("}")

IsValueToken(x) == x.t # "tok"

RECURSIVE StripWs(_)
StripWs(s) ==
    IF s = << >> THEN << >>
    ELSE IF Head(s) = Ws THEN StripWs(Tail(s))
    ELSE <<Head(s)>> \o StripWs(Tail(s))

\* JSON.parse(s): white space between tokens is ignored; what is left must be
\* one value, or the empty object written as two braces.
JSONparse(s) ==
    LET u == StripWs(s) IN
    IF Len(u) = 1 /\ IsValueToken(u[1]) THEN [ok |-> TRUE, value |-> u[1]]
    ELSE IF u = <<LBrace, RBrace>> THEN [ok |-> TRUE, value |-> Obj(<< >>)]
    ELSE [ok |-> FALSE, value |-> Undefined]

\* s.trim() on tokens
RECURSIVE TrimLeft(_)
TrimLeft(s) ==
    IF s # << >> /\ Head(s) = Ws THEN TrimLeft(Tail(s)) ELSE s
RECURSIVE TrimRight(_)
TrimRight(s) ==
    IF s # << >> /\ s[Len(s)] = Ws THEN TrimRight(SubSeq(s, 1, Len(s) - 1)) ELSE s

Min(S) == CHOOSE x \in S : \A y \in S : x <= y
Max(S) == CHOOSE x \in S : \A y \in S : x >= y

\* text.match(/<fence>json\s*([\s\S]*?)\s*<fence>/i): the leftmost opening
\* that some fence follows, the lazy interior up to the first fence after
\* it, white space trimmed at both ends.  [found, interior].
HasBackticks(x) == x \in {Fence, FenceJson}
FencedMatch(text) ==
    LET opens == {i \in 1..Len(text) :
                    /\ text[i] = FenceJson
                    /\ \E k \in (i + 1)..Len(text) : HasBackticks(text[k])}
    IN  IF opens = {} THEN [found |-> FALSE, interior |-> << >>]
        ELSE LET i == Min(opens)
                 k == Min({k \in (i + 1)..Len(text) : HasBackticks(text[k])})
             IN  [found |-> TRUE,
                  interior |-> TrimRight(TrimLeft(SubSeq(text, i + 1, k - 1)))]

\* text.indexOf of the opening brace and text.lastIndexOf of the closing
\* brace, as token positions (0 for -1)
HasOpenBrace(x) == x = LBrace \/ x.t = "obj"
HasCloseBrace(x) == x = RBrace \/ x.t = "obj"
FirstBrace(text) ==
    LET S == {i \in 1..Len(text) : HasOpenBrace(text[i])}
    IN  IF S = {} THEN 0 ELSE Min(S)
LastBrace(text) ==
    LET S == {i \in 1..Len(text) : HasCloseBrace(text[i])}
    IN  IF S = {} THEN 0 ELSE Max(S)

Returned(v) == [ok |-> TRUE, value |-> v, error |-> "none"]
Thrown(e) == [ok |-> FALSE, value |-> Undefined, error |-> e]
ParseOrThrow(s) ==
    LET p == JSONparse(s) IN
    IF p.ok THEN Returned(p.value) ELSE Thrown("SyntaxError")

\* without the slice from the first opening to the last closing brace
parseJsonFromText_NoSlice(text) ==
    LET fenced == FencedMatch(text)
    IN  IF text = << >> THEN Thrown("Empty AI response")
        ELSE IF fenced.found /\ fenced.interior # << >>
        THEN ParseOrThrow(fenced.interior)
        ELSE IF JSONparse(text).ok THEN ParseOrThrow(text)
        ELSE Thrown("No JSON found in AI response")

\* the brace slice tried before the fenced block
parseJsonFromText_BracesFirst(text) ==
    LET fenced == FencedMatch(text)
        first == FirstBrace(text)
        last == LastBrace(text)
    IN  IF text = << >> THEN Thrown("Empty AI response")
        ELSE IF first # 0 /\ last # 0
               /\ (last > first \/ (last = first /\ text[first].t = "obj"))
        THEN ParseOrThrow(SubSeq(text, first, last))
        ELSE IF fenced.found /\ fenced.interior # << >>
        THEN ParseOrThrow(fenced.interior)
        ELSE IF JSONparse(text).ok THEN ParseOrThrow(text)
        ELSE Thrown("No JSON found in AI response")

\* parseJsonFromText(text).  last > first compares character offsets: an
\* object token holds its own opening brace before its own closing brace.
parseJsonFromText(text) ==
    LET fenced == FencedMatch(text)
        first == FirstBrace(text)
        last == LastBrace(text)
    IN  IF text = << >> THEN Thrown("Empty AI response")
        ELSE IF fenced.found /\ fenced.interior # << >>
        THEN ParseOrThrow(fenced.interior)
        ELSE IF JSONparse(text).ok THEN ParseOrThrow(text)
        ELSE IF first # 0 /\ last # 0
               /\ (last > first \/ (last = first /\ text[first].t = "obj"))
        THEN ParseOrThrow(SubSeq(text, first, last))
        ELSE Thrown("No JSON found in AI response")

(***************************************************************************)
(* validateOutput(obj): "ok", or the message of the error it throws.       *)
(***************************************************************************)
Required == <<"score", "analysis", "reasoning", "key_factors">>

FirstMissing(v) ==
    LET S == {i \in 1..Len(Required) : ~HasKey(v, Required[i])}
    IN  IF S = {} THEN 0 ELSE Min(S)

\* the range check without its lower bound
validateOutput_NoLowerBound(v) ==
    IF InThrows(v) THEN "TypeError"
    ELSE IF FirstMissing(v) # 0 THEN "Missing: " \o Required[FirstMissing(v)]
    ELSE IF ~IsNumber(v.f["score"]) \/ GreaterThanHundred(v.f["score"])
            \/ ~IsFinite(v.f["score"])
    THEN "score must be 1..100 number"
    ELSE IF ~IsArray(v.f["key_factors"]) THEN "key_factors must be array"
    ELSE "ok"

validateOutput(v) ==
    IF InThrows(v) THEN "TypeError"
    ELSE IF FirstMissing(v) # 0 THEN "Missing: " \o Required[FirstMissing(v)]
    ELSE IF ~IsNumber(v.f["score"]) \/ LessThanOne(v.f["score"])
            \/ GreaterThanHundred(v.f["score"]) \/ ~IsFinite(v.f["score"])
    THEN "score must be 1..100 number"
    ELSE IF ~IsArray(v.f["key_factors"]) THEN "key_factors must be array"
    ELSE "ok"

(***************************************************************************)
(* Daily closes: mapDailyClose of refreshDailyClosesCache.  A raw point    *)
(* carries a timestamp and up to three fields for the close; a field is    *)
(* "absent" (undefined or null), "nan" (present, not a finite number) or   *)
(* the name of a finite number.                                            *)
(***************************************************************************)
RawPoint(ts, close, price, c) ==
    [timestamp |-> ts, close |-> close, price |-> price, c |-> c]

\* d.close ?? d.price ?? d.c ?? null
Coalesce(d) ==
    IF d.close # "absent" THEN d.close
    ELSE IF d.price # "absent" THEN d.price
    ELSE d.c

\* Number.isFinite(close)
FiniteClose(x) == x \notin {"absent", "nan"}

MapPoint(d) == [timestamp |-> d.timestamp, close |-> Coalesce(d)]

RECURSIVE MapSeq(_)
MapSeq(arr) ==
    IF arr = << >> THEN << >> ELSE <<MapPoint(Head(arr))>> \o MapSeq(Tail(arr))

RECURSIVE FilterFinite(_)
FilterFinite(arr) ==
    IF arr = << >> THEN << >>
    ELSE IF FiniteClose(Head(arr).close)
         THEN <<Head(arr)>> \o FilterFinite(Tail(arr))
         ELSE FilterFinite(Tail(arr))

\* Array.prototype.sort((a, b) => a.timestamp - b.timestamp): a stable sort
RECURSIVE InsertByTimestamp(_, _)
InsertByTimestamp(sorted, d) ==
    IF sorted = << >> THEN <<d>>
    ELSE IF d.timestamp < Head(sorted).timestamp THEN <<d>> \o sorted
    ELSE <<Head(sorted)>> \o InsertByTimestamp(Tail(sorted), d)

RECURSIVE SortByTimestamp(_)
SortByTimestamp(arr) ==
    IF arr = << >> THEN << >>
    ELSE InsertByTimestamp(SortByTimestamp(SubSeq(arr, 1, Len(arr) - 1)),
                           arr[Len(arr)])

\* arr.slice(-n)
SliceLast(arr, n) ==
    IF Len(arr) <= n THEN arr ELSE SubSeq(arr, Len(arr) - n + 1, Len(arr))

mapDailyClose(arr) ==
    SliceLast(SortByTimestamp(FilterFinite(MapSeq(arr))), DailyCap)

(***************************************************************************)
(* The state of the process.                                               *)
(***************************************************************************)
VARIABLES
    db,                \* Firestore initialised (db is not null)
    apiKey,            \* CONFIG.OPENROUTER_API_KEY is set
    promptFile,        \* the text of prompts/market-peak-analysis-v1.md
    promptCache,       \* promptManager.promptCache, by cache key
    running,           \* the process is up: server listening, cron scheduled
    latestData,        \* aggregator.latestData.BULL_PEAK
    listeners,         \* keys of aggregator.listeners
    nEvents,           \* inbound subscription events delivered so far
    lastEvent,         \* the last inbound subscription event
    teardown,          \* cleanup() calls made, unsubscribe functions called
    dailyClosesCache,  \* series per asset, and lastFetchedAt
    refreshes,         \* refreshDailyClosesCache calls in flight
    nRefreshes,        \* refreshDailyClosesCache calls started so far
    lastRefresh,       \* the responses the last finished refresh received
    store,             \* the documents of collection market_peak_analyses
    runs,              \* analyze() calls, by run
    nRuns,             \* analyze() calls started so far
    api                \* the request of the analysis routes being served

vars == <<db, apiKey, promptFile, promptCache, running, latestData, listeners, nEvents, lastEvent,
          teardown, dailyClosesCache, refreshes, nRefreshes, lastRefresh, store, runs,
          nRuns, api>>

configVars == <<db, apiKey, promptFile>>
listenerVars == <<latestData, listeners, nEvents, lastEvent, teardown>>
cacheVars == <<dailyClosesCache, refreshes, nRefreshes, lastRefresh>>
runVars == <<store, runs, nRuns>>
apiVars == <<api>>

Runs == 1..MaxRuns
AssetOrder == <<"bitcoin", "ethereum", "solana">>

(***************************************************************************)
(* The indicator feed: what the listener is handed.                        *)
(***************************************************************************)
Indicator(name, hit, value, threshold) ==
    Obj([indicator_name |-> Str(name), hit_status |-> Bool(hit),
         current_value |-> Num(value), threshold |-> Num(threshold)])

\* doc.data() of bull-market-peak-indicators/latest, as the feed may write it
FeedDocuments ==
    { [indicators |-> Arr(<<Indicator("pi_cycle", TRUE, 3, 2),
                            Indicator("mvrv", FALSE, 1, 4)>>),
       timestamp |-> Str("t1")],
      [indicators |-> Arr(<<Indicator("mvrv", TRUE, 5, 4)>>),
       collected_at |-> Str("t2")],
      [timestamp |-> Str("t3")],
      [id |-> Str("feed-7"), indicators |-> Arr(<< >>)] }

\* doc.id of the listened document
DocId == "latest"

\* { id: doc.id, ...doc.data() }
SpreadDoc(id, data) ==
    Obj([k \in {"id"} \cup DOMAIN data |->
            IF k \in DOMAIN data THEN data[k] ELSE Str(id)])

\* the first callback of onSnapshot
OnSnapshot(exists, data) ==
    /\ running
    /\ "BULL_PEAK" \in listeners
    /\ nEvents < MaxEvents
    /\ nEvents' = nEvents + 1
    /\ lastEvent' = [kind |-> IF exists THEN "document" ELSE "absent",
                     after |-> lastEvent.kind,
                     id |-> DocId,
                     data |-> IF exists THEN data ELSE << >>]
    /\ latestData' = IF exists THEN SpreadDoc(DocId, data) ELSE Null
    /\ UNCHANGED <<apiVars, listeners, teardown, configVars, promptCache, running, cacheVars,
                   runVars>>

\* the second callback of onSnapshot, unsubscribing
OnSnapshotError_Unsubscribes ==
    /\ running
    /\ "BULL_PEAK" \in listeners
    /\ nEvents < MaxEvents
    /\ nEvents' = nEvents + 1
    /\ lastEvent' = [kind |-> "error", after |-> lastEvent.kind, id |-> DocId,
                     data |-> << >>]
    /\ latestData' = Null
    /\ listeners' = {}
    /\ UNCHANGED <<apiVars, teardown, configVars, promptCache, running, cacheVars, runVars>>

\* the second callback of onSnapshot
OnSnapshotError ==
    /\ running
    /\ "BULL_PEAK" \in listeners
    /\ nEvents < MaxEvents
    /\ nEvents' = nEvents + 1
    /\ lastEvent' = [kind |-> "error", after |-> lastEvent.kind, id |-> DocId,
                     data |-> << >>]
    /\ latestData' = Null
    /\ UNCHANGED <<apiVars, listeners, teardown, configVars, promptCache, running, cacheVars,
                   runVars>>

\* cleanup() leaving the table as it was
Cleanup_KeepsTable ==
    /\ running
    /\ teardown.calls < MaxCleanups
    /\ teardown' = [calls |-> teardown.calls + 1,
                    unsubscribed |-> teardown.unsubscribed + Cardinality(listeners)]
    /\ UNCHANGED <<apiVars, configVars, promptCache, running, latestData, listeners, nEvents,
                   lastEvent, cacheVars, runVars>>

\* cleanup(), called by the handlers of SIGINT and SIGTERM: every listener
\* is unsubscribed and the table emptied
Cleanup ==
    /\ running
    /\ teardown.calls < MaxCleanups
    /\ teardown' = [calls |-> teardown.calls + 1,
                    unsubscribed |-> teardown.unsubscribed + Cardinality(listeners)]
    /\ listeners' = {}
    /\ UNCHANGED <<apiVars, configVars, promptCache, running, latestData, nEvents, lastEvent,
                   cacheVars, runVars>>

(***************************************************************************)
(* generateBullPeakSummary and formatSeriesForPrompt.                      *)
(***************************************************************************)
NoIndicators == Str("No Bull Market Peak Indicators available")

\* !v
Falsy(v) ==
    \/ v.t \in {"null", "undefined"}
    \/ (v.t = "bool" /\ ~v.b)
    \/ (v.t = "num" /\ v.fin /\ v.n = 0 /\ ~v.frac)
    \/ (v.t = "str" /\ v.s = "")

\* ind?.k
Field(v, k) == IF v.t = "obj" /\ k \in DOMAIN v.f THEN v.f[k] ELSE Undefined

\* a || b
OrElse(a, b) == IF Falsy(a) THEN b ELSE a

\* one line: name, hit, value and threshold as the template literal takes them
SummaryLine(ind) ==
    [name |-> OrElse(Field(ind, "indicator_name"), Str("Unknown Indicator")),
     hit |-> Bool(~Falsy(Field(ind, "hit_status"))),
     value |-> OrElse(Field(ind, "current_value"),
                      OrElse(Field(ind, "value"), Str("N/A"))),
     threshold |-> OrElse(Field(ind, "threshold"), Str("N/A"))]

generateBullPeakSummary(latestBullPeakDoc) ==
    IF Falsy(latestBullPeakDoc) \/ ~IsArray(Field(latestBullPeakDoc, "indicators"))
    THEN NoIndicators
    ELSE LET inds == Field(latestBullPeakDoc, "indicators").e
         IN  [t |-> "lines", lines |-> [i \in 1..Len(inds) |-> SummaryLine(inds[i])]]

\* JSON.stringify(v)
Stringify(v) == [t |-> "json", of |-> v]

\* i % 5 === 0 and slice(-288)
MinuteStride == 5
MinuteCap == 288

\* arr.filter((_, k) => k % n === 0), arr starting at index i: the elements
\* whose index is a multiple of n, in order (evaluated by halves)
RECURSIVE EveryNth(_, _, _)
EveryNth(arr, i, n) ==
    IF arr = << >> THEN << >>
    ELSE IF Len(arr) = 1 THEN (IF i % n = 0 THEN arr ELSE << >>)
    ELSE LET h == Len(arr) \div 2
         IN  EveryNth(SubSeq(arr, 1, h), i, n)
                 \o EveryNth(SubSeq(arr, h + 1, Len(arr)), i + h, n)

\* minuteSeries.x?.prices || minuteSeries.x?.data || minuteSeries.x
UnwrapSeries(resp) ==
    OrElse(Field(resp, "prices"), OrElse(Field(resp, "data"), resp))

\* slice(0, 288) in place of slice(-288)
formatSeriesForPrompt_KeepFirst(arr, label) ==
    IF Falsy(arr) \/ ~IsArray(arr) \/ arr.e = << >>
    THEN [t |-> "insufficient_data", label |-> label]
    ELSE LET sampled == EveryNth(arr.e, 0, MinuteStride)
         IN  Stringify(Arr(SubSeq(sampled, 1, Min({Len(sampled), MinuteCap}))))

formatSeriesForPrompt(arr, label) ==
    IF Falsy(arr) \/ ~IsArray(arr) \/ arr.e = << >>
    THEN [t |-> "insufficient_data", label |-> label]
    ELSE Stringify(Arr(SliceLast(EveryNth(arr.e, 0, MinuteStride), MinuteCap)))

Label(a) ==
    CASE a = "bitcoin" -> "btc24" [] a = "ethereum" -> "eth24" [] OTHER -> "sol24"

(***************************************************************************)
(* One analyze() call.  pc names the await the run is suspended at:        *)
(*   pulls     Promise.all of fetchCryptoMinuteSeries                      *)
(*   refresh   refreshDailyClosesCache, called by getCachedDailyCloses     *)
(*   llm       axios.post of callLLM                                       *)
(*   store     db.collection(...).add of storeResult                       *)
(* rejected and resolved are how the call has ended, before its caller     *)
(* (the cron task or the trigger route) has dealt with it; done after.     *)
(***************************************************************************)
NoOutcome == [success |-> FALSE, error |-> "none", analysis |-> Undefined,
              storage |-> Undefined]

\* one request of fetchDataServiceJson: idle, pending, or settled with the
\* answer it got
NoAnswer == [ok |-> FALSE, data |-> << >>]
IdlePull == [st |-> "idle", ans |-> NoAnswer]
PendingPull == [st |-> "pending", ans |-> NoAnswer]
Settled(ans) == [st |-> "settled", ans |-> ans]

IdleRun ==
    [pc |-> "idle", trigger |-> "none",
     \* history: the runs that had already failed when this one was triggered
     priorFailures |-> 0,
     \* history: the runs that were in flight when this one was triggered
     inFlightAtStart |-> 0,
     pulls |-> [a \in Assets |-> IdlePull],
     minuteSeries |-> Undefined,
     bullSummary |-> Undefined,
     daily |-> [a \in Assets |-> << >>],
     getting |-> 0,
     \* history: the refreshes getCachedDailyCloses has awaited, per asset
     refreshCalls |-> [a \in Assets |-> 0],
     templateData |-> Undefined,
     prompt |-> Undefined,
     aiText |-> << >>,
     parsed |-> Undefined,
     error |-> "none",
     outcome |-> NoOutcome]

\* the locals of buildPromptData are not read again once the prompt is sent
DropBuild(run) ==
    [run EXCEPT !.pulls = IdleRun.pulls, !.minuteSeries = IdleRun.minuteSeries,
                !.bullSummary = IdleRun.bullSummary,
                !.daily = IdleRun.daily, !.refreshCalls = IdleRun.refreshCalls,
                !.templateData = IdleRun.templateData,
                !.prompt = IdleRun.prompt]

Reject(run, e) == [DropBuild(run) EXCEPT !.pc = "rejected", !.error = e]

\* the object literal buildPromptData returns
TemplateData(run, latest) ==
    [t |-> "templateData",
     timestamp |-> [t |-> "isoDate"],
     bull_market_peak_indicators |-> run.bullSummary,
     bull_market_peak_raw |->
         OrElse(latest, Obj([note |-> Str("no_bull_peak_data")])),
     recent_minutes_24h |->
         [a \in Assets |->
            formatSeriesForPrompt(UnwrapSeries(run.minuteSeries.of[a]), Label(a))],
     daily_900d_close |->
         [a \in Assets |-> Stringify(Arr(SliceLast(run.daily[a], DailyCap)))]]

(***************************************************************************)
(* The prompt manager.  A text is a sequence of pieces: a chunk of text    *)
(* that holds no placeholder and no dollar sign, a placeholder {{k}}, or   *)
(* one of the dollar patterns String.prototype.replace gives a meaning to  *)
(* in a replacement string.                                                *)
(***************************************************************************)
Chunk(x) == [t |-> "chunk", x |-> x]
Hole(k) == [t |-> "hole", k |-> k]
DollarDollar == [t |-> "$$"]
DollarAmp == [t |-> "$&"]
Dollar == [t |-> "$"]

\* a string value given piece by piece
Chars(toks) == [t |-> "chars", toks |-> toks]

\* prompts/market-peak-analysis-v1.md: its eight placeholders and the text
\* around them
TemplateV1 ==
    <<Chunk(Str("context")), Hole("timestamp"), Chunk(Str("sources")),
      Hole("bull_market_peak_raw"), Chunk(Str("btc-minutes")),
      Hole("bitcoin_recent_minutes_24h"), Chunk(Str("btc-daily")),
      Hole("bitcoin_daily_900d_close"), Chunk(Str("eth-minutes")),
      Hole("ethereum_recent_minutes_24h"), Chunk(Str("eth-daily")),
      Hole("ethereum_daily_900d_close"), Chunk(Str("sol-minutes")),
      Hole("solana_recent_minutes_24h"), Chunk(Str("sol-daily")),
      Hole("solana_daily_900d_close"), Chunk(Str("framework"))>>

\* `${promptName}-${promptVersion}`
CacheKey == "market-peak-analysis-v1"
EmptyCache == [k \in {} |-> << >>]

\* loadPromptTemplate: the cached template, or the file read and cached
loadPromptTemplate(cache, file) ==
    IF CacheKey \in DOMAIN cache
    THEN [template |-> cache[CacheKey], cache |-> cache]
    ELSE [template |-> file, cache |-> [k \in {CacheKey} |-> file]]

\* the texts of ss one after the other; ss is evaluated once
RECURSIVE ConcatFrom(_, _)
ConcatFrom(ss, i) == IF i > Len(ss) THEN << >> ELSE ss[i] \o ConcatFrom(ss, i + 1)
Concat(ss) == CHOOSE text \in {ConcatFrom(s, 1) : s \in {ss}} : TRUE

\* Object.entries(data), in insertion order
Entries(data) ==
    IF data.t = "templateData"
    THEN <<  <<"timestamp", data.timestamp>>,
             <<"bull_market_peak_indicators", data.bull_market_peak_indicators>>,
             <<"bull_market_peak_raw", data.bull_market_peak_raw>>,
             <<"bitcoin_recent_minutes_24h", data.recent_minutes_24h["bitcoin"]>>,
             <<"bitcoin_daily_900d_close", data.daily_900d_close["bitcoin"]>>,
             <<"ethereum_recent_minutes_24h", data.recent_minutes_24h["ethereum"]>>,
             <<"ethereum_daily_900d_close", data.daily_900d_close["ethereum"]>>,
             <<"solana_recent_minutes_24h", data.recent_minutes_24h["solana"]>>,
             <<"solana_daily_900d_close", data.daily_900d_close["solana"]>>  >>
    ELSE data.entries

\* typeof value === "object"
TypeofObject(v) == v.t \in {"obj", "arr", "null"}

\* JSON.stringify(value, null, 2) for an object and String(value) for the
\* rest: the strings a value holds come out piece by piece, what else it
\* holds as one chunk
ReplacementOf(v) ==
    IF v.t = "chars" THEN v.toks
    ELSE IF v.t = "arr" /\ \A i \in DOMAIN v.e : v.e[i].t = "chars"
    THEN <<Chunk(Str("["))>>
            \o Concat([i \in DOMAIN v.e |-> <<Chunk(Str("indent"))>> \o v.e[i].toks])
            \o <<Chunk(Str("]"))>>
    ELSE IF TypeofObject(v) THEN <<Chunk([pretty |-> v])>>
    ELSE <<Chunk([string |-> v])>>

\* what replace() puts in for one match, given the replacement string: $$
\* is a dollar sign and $& the matched text
Expand(replacement, matched) ==
    Concat([i \in DOMAIN replacement |->
              IF replacement[i] = DollarDollar THEN <<Dollar>>
              ELSE IF replacement[i] = DollarAmp THEN <<matched>>
              ELSE <<replacement[i]>>])

\* filled.replace(new RegExp("{{key}}", "g"), replacement) for the entries
\* from i on, one after the other, followed on one piece of the text: the
\* placeholder of entry i becomes the replacement, whose pieces the later
\* entries replace in turn; any other piece is left to the later entries
RECURSIVE FillFrom(_, _, _)
FillFrom(piece, entries, i) ==
    IF i > Len(entries) THEN <<piece>>
    ELSE IF piece = Hole(entries[i][1])
    THEN LET put == Expand(ReplacementOf(entries[i][2]), piece)
         IN  Concat([j \in DOMAIN put |-> FillFrom(put[j], entries, i + 1)])
    ELSE FillFrom(piece, entries, i + 1)

\* fillTemplate: the entries of data are replaced one after the other
fillTemplate(template, data) ==
    Concat([p \in DOMAIN template |-> FillFrom(template[p], Entries(data), 1)])

\* promptManager.getFilledPrompt(templateData); the template data is
\* evaluated once, before the template is filled
getFilledPrompt(templateData) ==
    CHOOSE prompt \in
        {fillTemplate(loadPromptTemplate(promptCache, promptFile).template, data) :
            data \in {templateData}} : TRUE

\* callLLM without its check of the key
callLLM_NoKeyCheck(run, key) ==
    [run EXCEPT !.pc = "llm", !.prompt = getFilledPrompt(run.templateData)]

\* callLLM up to its axios.post
callLLM(run, key) ==
    IF ~key THEN Reject(run, "OpenRouter API key not configured")
    ELSE [run EXCEPT !.pc = "llm", !.prompt = getFilledPrompt(run.templateData)]

\* buildPromptData from the first getCachedDailyCloses on: the cached series
\* of asset i when it is not empty, else the run suspends in a refresh; past
\* the last asset the template data is built and callLLM is entered.
RECURSIVE GetDailyFrom(_, _, _, _, _)
GetDailyFrom(run, i, cache, latest, key) ==
    IF i > Len(AssetOrder)
    THEN callLLM([run EXCEPT !.templateData = TemplateData(run, latest),
                             !.getting = 0], key)
    ELSE IF cache[AssetOrder[i]] # << >>
    THEN GetDailyFrom([run EXCEPT !.daily[AssetOrder[i]] = cache[AssetOrder[i]]],
                      i + 1, cache, latest, key)
    ELSE [run EXCEPT !.pc = "refresh", !.getting = i,
                     !.refreshCalls[AssetOrder[i]] = @ + 1]

\* without the .catch on each request, Promise.all rejects with the first
\* failure
fetchCryptoMinuteSeries_NoCatch(pulls) ==
    IF \A a \in Assets : pulls[a].ans.ok
    THEN [ok |-> TRUE, of |-> [a \in Assets |-> pulls[a].ans.data]]
    ELSE [ok |-> FALSE, of |-> [a \in Assets |-> Null]]

\* fetchCryptoMinuteSeries once its three requests have settled: each request
\* carries .catch(() => null), so Promise.all always resolves
fetchCryptoMinuteSeries(pulls) ==
    [ok |-> TRUE,
     of |-> [a \in Assets |-> IF pulls[a].ans.ok THEN pulls[a].ans.data ELSE Null]]

\* buildPromptData after Promise.all of the pulls has settled
AfterPulls(run, cache, latest, key) ==
    LET collected == fetchCryptoMinuteSeries(run.pulls) IN
    IF ~collected.ok THEN Reject(run, "PullError")
    ELSE GetDailyFrom([run EXCEPT !.minuteSeries = [t |-> "minuteSeries",
                                                     of |-> collected.of],
                                  !.bullSummary = generateBullPeakSummary(latest)],
                      1, cache, latest, key)

\* a second refresh when the first has left the series empty
AfterRefresh_Retry(run, cache, latest, key) ==
    IF cache[AssetOrder[run.getting]] = << >>
       /\ run.refreshCalls[AssetOrder[run.getting]] < 2
    THEN [run EXCEPT !.refreshCalls[AssetOrder[run.getting]] = @ + 1]
    ELSE GetDailyFrom([run EXCEPT !.daily[AssetOrder[run.getting]] =
                                     cache[AssetOrder[run.getting]]],
                      run.getting + 1, cache, latest, key)

\* getCachedDailyCloses after its refresh has returned
AfterRefresh(run, cache, latest, key) ==
    GetDailyFrom([run EXCEPT !.daily[AssetOrder[run.getting]] =
                                 cache[AssetOrder[run.getting]]],
                 run.getting + 1, cache, latest, key)

\* { ...a, ...b }
Spread(f, g) ==
    [k \in DOMAIN f \cup DOMAIN g |-> IF k \in DOMAIN g THEN g[k] ELSE f[k]]

Metadata ==
    Obj([model |-> Str("openai/gpt-5-mini"),
         data_sources |-> Arr(<<Str("BULL_PEAK"), Str("BTC"), Str("ETH"), Str("SOL")>>),
         collection_duration_ms |-> Str("elapsed")])

\* the metadata put before the spread of the parsed object, which then
\* overrides it
Enriched_MetadataFirst(parsed) ==
    Obj(Spread([analysis_metadata |-> Metadata], parsed.f))

\* { ...parsed, analysis_metadata: { model, data_sources, collection_duration_ms } }
Enriched(parsed) == Obj(Spread(parsed.f, [analysis_metadata |-> Metadata]))

\* the document storeResult adds
StoredDoc(result) ==
    Obj(Spread(result.f,
               [timestamp |-> Str("now"), createdAt |-> Str("now"),
                service |-> Str("market-peak-analysis-service"),
                serviceVersion |-> Str("1.0.0")]))

NotStored == [stored |-> FALSE, reason |-> "firestore_not_available", id |-> 0]
StoredAs(id) == [stored |-> TRUE, reason |-> "none", id |-> id]

Resolve(run, storage) ==
    [run EXCEPT !.pc = "resolved",
                !.outcome = [success |-> TRUE, error |-> "none",
                             analysis |-> Enriched(run.parsed),
                             storage |-> storage]]

\* analyze without its validation step
AfterCompletion_NoValidate(run, text, database) ==
    LET p == parseJsonFromText(text)
        r1 == [DropBuild(run) EXCEPT !.aiText = text]
        r2 == [r1 EXCEPT !.parsed = p.value]
    IN  IF ~p.ok THEN Reject(r1, p.error)
        ELSE IF ~database THEN Resolve(r2, NotStored)
        ELSE [r2 EXCEPT !.pc = "store"]

\* analyze from the completion text on, up to the add of storeResult
AfterCompletion(run, text, database) ==
    LET p == parseJsonFromText(text)
        r1 == [DropBuild(run) EXCEPT !.aiText = text]
        r2 == [r1 EXCEPT !.parsed = p.value]
    IN  IF ~p.ok THEN Reject(r1, p.error)
        ELSE IF validateOutput(p.value) # "ok" THEN Reject(r2, validateOutput(p.value))
        ELSE IF ~database THEN Resolve(r2, NotStored)
        ELSE [r2 EXCEPT !.pc = "store"]

\* the caller: the cron task ignores a rejection and goes on to the next
\* hour; the trigger route answers 500.  The process stays up in both.
TriggerHandler_NoCatch(run) ==
    [run |-> IF run.pc = "rejected"
             THEN [run EXCEPT !.pc = "done",
                              !.outcome = [NoOutcome EXCEPT !.error = run.error]]
             ELSE IF run.pc = "resolved" THEN [run EXCEPT !.pc = "done"]
             ELSE run,
     running |-> run.pc # "rejected"]

TriggerHandler(run) ==
    [run |-> IF run.pc = "rejected"
             THEN [run EXCEPT !.pc = "done",
                              !.outcome = [NoOutcome EXCEPT !.error = run.error]]
             ELSE IF run.pc = "resolved" THEN [run EXCEPT !.pc = "done"]
             ELSE run,
     running |-> TRUE]

(***************************************************************************)
(* What the external services may answer.                                  *)
(***************************************************************************)
Failed == [ok |-> FALSE, data |-> << >>]
Answer(d) == [ok |-> TRUE, data |-> d]

\* GET /<asset>?hours=24: a one-point window, labelled by its asset
Window(a) == Arr(<<Str(a)>>)
MinuteAnswers(a) == {Failed, Answer(Window(a))}

\* GET /<asset>/daily?days=900: the finite closes are named after the asset
UnsortedDaily(a) ==
    <<RawPoint(2, a, "absent", "absent"), RawPoint(1, "absent", a, "absent"),
      RawPoint(3, "nan", a, "absent")>>
LongDaily(a) ==
    <<RawPoint(1, a, "absent", "absent"), RawPoint(2, "absent", "absent", a),
      RawPoint(3, a, "absent", "absent"), RawPoint(3, a, "nan", "absent")>>
DailyAnswers(a) == {Failed, Answer(UnsortedDaily(a)), Answer(LongDaily(a))}
DailyAnswerSets == [Assets -> UNION {DailyAnswers(a) : a \in Assets}]
CuratedDaily == {resp \in DailyAnswerSets : \A a \in Assets : resp[a] \in DailyAnswers(a)}

\* the verdicts a completion may carry
Verdict(score, analysis, factors) ==
    Obj([score |-> score, analysis |-> analysis, reasoning |-> Str("because"),
         key_factors |-> factors])
GoodVerdict == Verdict(Num(8), Str("not a peak"), Arr(<<Str("mvrv")>>))
LooseVerdict == Verdict(NumHalf(1), Num(0), Arr(<<Num(1)>>))
ZeroVerdict == Verdict(Num(0), Str("not a peak"), Arr(<<Str("mvrv")>>))

\* POST chat/completions: choices[0].message.content
Completions ==
    { <<FenceJson, Ws, GoodVerdict, Ws, Fence>>,
      <<Prose, LooseVerdict, Prose>>,
      <<ZeroVerdict>>,
      <<Prose>> }
CompletionAnswers == {Failed} \cup {Answer(text) : text \in Completions}

(***************************************************************************)
(* The actions.                                                            *)
(***************************************************************************)
\* the limit of the query of getRecent, and the default of the route
RecentCap == 50
DefaultLimit == 10

\* what getRecent has returned or thrown
NoReturn == [thrown |-> FALSE, analyses |-> << >>, error |-> "pending"]
IdleApi ==
    [pc |-> "idle", route |-> "none", asked |-> Undefined, limit |-> 0,
     queryFailed |-> FALSE, returned |-> NoReturn, status |-> 0,
     body |-> Undefined]

\* the state after the module body has run, the store holding the
\* documents of earlier runs
BootWith(stored, file) ==
    /\ db \in BOOLEAN
    /\ apiKey \in BOOLEAN
    /\ promptFile = file
    /\ promptCache = EmptyCache
    /\ running = TRUE
    /\ latestData = Null
    /\ listeners = IF db THEN {"BULL_PEAK"} ELSE {}
    /\ nEvents = 0
    /\ teardown = [calls |-> 0, unsubscribed |-> 0]
    /\ lastEvent = [kind |-> "none", after |-> "none", id |-> DocId,
                    data |-> << >>]
    /\ dailyClosesCache = [bitcoin |-> << >>, ethereum |-> << >>,
                           solana |-> << >>, lastFetchedAt |-> 0]
    \* refreshDailyClosesCache() of the module body is in flight
    /\ refreshes = {[id |-> 1, owner |-> 0]}
    /\ nRefreshes = 1
    /\ lastRefresh = [id |-> 0, resp |-> [a \in Assets |-> Failed]]
    /\ store = stored
    /\ runs = [r \in Runs |-> IdleRun]
    /\ nRuns = 0
    /\ api = IdleApi

Boot(stored) == BootWith(stored, TemplateV1)

Init == Boot(<< >>)

\* the catch emptying the cache
refreshDailyClosesCache_ClearOnFailure(cache, resp) ==
    IF \A a \in Assets : resp[a].ok
    THEN [bitcoin |-> mapDailyClose(resp["bitcoin"].data),
          ethereum |-> mapDailyClose(resp["ethereum"].data),
          solana |-> mapDailyClose(resp["solana"].data),
          lastFetchedAt |-> cache.lastFetchedAt + 1]
    ELSE [bitcoin |-> << >>, ethereum |-> << >>, solana |-> << >>,
          lastFetchedAt |-> cache.lastFetchedAt]

\* the answered points added to the series held, instead of replacing it
refreshDailyClosesCache_Merge(cache, resp) ==
    IF \A a \in Assets : resp[a].ok
    THEN [bitcoin |-> mapDailyClose(cache.bitcoin \o resp["bitcoin"].data),
          ethereum |-> mapDailyClose(cache.ethereum \o resp["ethereum"].data),
          solana |-> mapDailyClose(cache.solana \o resp["solana"].data),
          lastFetchedAt |-> cache.lastFetchedAt + 1]
    ELSE cache

\* the try block of refreshDailyClosesCache once Promise.all has settled:
\* all three answers, or the catch
refreshDailyClosesCache(cache, resp) ==
    IF \A a \in Assets : resp[a].ok
    THEN [bitcoin |-> mapDailyClose(resp["bitcoin"].data),
          ethereum |-> mapDailyClose(resp["ethereum"].data),
          solana |-> mapDailyClose(resp["solana"].data),
          lastFetchedAt |-> cache.lastFetchedAt + 1]
    ELSE cache

\* a run that has just moved: its caller deals with how it ended, and a
\* refresh is started when it suspended in getCachedDailyCloses; the state
\* the run moved to is evaluated once
Moved(r, run) ==
    \E moved \in {run} :
        /\ runs' = [runs EXCEPT ![r] = TriggerHandler(moved).run]
        /\ promptCache' = IF moved.pc = "llm" /\ runs[r].pc # "llm"
                          THEN loadPromptTemplate(promptCache, promptFile).cache
                          ELSE promptCache
        /\ running' = TriggerHandler(moved).running
        /\ IF moved.pc = "refresh"
           THEN /\ refreshes' = (refreshes \ {f \in refreshes : f.owner = r})
                                    \cup {[id |-> nRefreshes + 1, owner |-> r]}
                /\ nRefreshes' = nRefreshes + 1
           ELSE /\ refreshes' = {f \in refreshes : f.owner # r}
                /\ nRefreshes' = nRefreshes

FailedRuns == {r \in Runs : runs[r].pc = "done" /\ ~runs[r].outcome.success}
RunsInFlight == {r \in Runs : runs[r].pc \notin {"idle", "done"}}

\* cron.schedule(CONFIG.ANALYSIS_INTERVAL) and POST /api/analysis/trigger:
\* analyze() up to the Promise.all of the three pulls
Trigger(kind, max) ==
    /\ running
    /\ nRuns < max
    /\ nRuns' = nRuns + 1
    /\ runs' = [runs EXCEPT ![nRuns + 1] =
                    [IdleRun EXCEPT !.pc = "pulls", !.trigger = kind,
                                    !.priorFailures = Cardinality(FailedRuns),
                                    !.inFlightAtStart = Cardinality(RunsInFlight),
                                    !.pulls = [a \in Assets |-> PendingPull]]]
    /\ UNCHANGED <<apiVars, configVars, promptCache, running, listenerVars, cacheVars, store>>

CronTick == Trigger("cron", MaxRuns)
ManualTrigger == Trigger("manual", MaxRuns)

\* buildPromptData going on as soon as one request has settled
PullSettles_Race(r, a, ans) ==
    /\ running
    /\ runs[r].pc = "pulls"
    /\ runs[r].pulls[a].st = "pending"
    /\ Moved(r, AfterPulls([runs[r] EXCEPT !.pulls[a] = Settled(ans)],
                           dailyClosesCache, latestData, apiKey))
    /\ UNCHANGED <<apiVars, configVars, listenerVars, dailyClosesCache, lastRefresh, store,
                   nRuns>>

\* one request of fetchCryptoMinuteSeries settles
PullSettles(r, a, ans) ==
    /\ running
    /\ runs[r].pc = "pulls"
    /\ runs[r].pulls[a].st = "pending"
    /\ LET r1 == [runs[r] EXCEPT !.pulls[a] = Settled(ans)]
           r2 == IF \A b \in Assets : r1.pulls[b].st = "settled"
                 THEN AfterPulls(r1, dailyClosesCache, latestData, apiKey)
                 ELSE r1
       IN  Moved(r, r2)
    /\ UNCHANGED <<apiVars, configVars, listenerVars, dailyClosesCache, lastRefresh, store,
                   nRuns>>

\* cron.schedule("15 2 * * *"): the daily refresh starts
TimerRefresh ==
    /\ running
    /\ nRefreshes < MaxRefreshes
    /\ refreshes' = refreshes \cup {[id |-> nRefreshes + 1, owner |-> 0]}
    /\ nRefreshes' = nRefreshes + 1
    /\ UNCHANGED <<apiVars, configVars, promptCache, running, listenerVars, dailyClosesCache,
                   lastRefresh, runVars>>

\* a refresh of the startup call or the timer settles
RefreshSettles(f, resp) ==
    /\ running
    /\ f \in refreshes
    /\ f.owner = 0
    /\ dailyClosesCache' = refreshDailyClosesCache(dailyClosesCache, resp)
    /\ lastRefresh' = [id |-> f.id, resp |-> resp]
    /\ refreshes' = refreshes \ {f}
    /\ UNCHANGED <<apiVars, configVars, promptCache, running, listenerVars, nRefreshes, runVars>>

\* the refresh getCachedDailyCloses awaits settles, and buildPromptData goes on
LazyRefreshSettles(f, resp) ==
    /\ running
    /\ f \in refreshes
    /\ f.owner # 0
    /\ runs[f.owner].pc = "refresh"
    /\ dailyClosesCache' = refreshDailyClosesCache(dailyClosesCache, resp)
    /\ lastRefresh' = [id |-> f.id, resp |-> resp]
    /\ Moved(f.owner,
             AfterRefresh(runs[f.owner], dailyClosesCache', latestData, apiKey))
    /\ UNCHANGED <<apiVars, configVars, listenerVars, store, nRuns>>

\* the axios.post of callLLM settles; content || ""
LLMSettles(r, ans) ==
    /\ running
    /\ runs[r].pc = "llm"
    /\ Moved(r, IF ans.ok THEN AfterCompletion(runs[r], ans.data, db)
                ELSE Reject(DropBuild(runs[r]), "TransportError"))
    /\ UNCHANGED <<apiVars, configVars, listenerVars, dailyClosesCache, lastRefresh, store,
                   nRuns>>

\* the result written under one fixed document instead of added
StoreSettles_Overwrite(r, ok) ==
    /\ running
    /\ runs[r].pc = "store"
    /\ IF ok
       THEN /\ store' = <<[id |-> 1, by |-> r,
                           doc |-> StoredDoc(Enriched(runs[r].parsed))]>>
            /\ Moved(r, Resolve(runs[r], StoredAs(1)))
       ELSE /\ store' = store
            /\ Moved(r, Reject(runs[r], "StoreError"))
    /\ UNCHANGED <<apiVars, configVars, listenerVars, dailyClosesCache, lastRefresh, nRuns>>

\* the add of storeResult settles
StoreSettles(r, ok) ==
    /\ running
    /\ runs[r].pc = "store"
    /\ IF ok
       THEN /\ store' = Append(store, [id |-> Len(store) + 1, by |-> r,
                                       doc |-> StoredDoc(Enriched(runs[r].parsed))])
            /\ Moved(r, Resolve(runs[r], StoredAs(Len(store) + 1)))
       ELSE /\ store' = store
            /\ Moved(r, Reject(runs[r], "StoreError"))
    /\ UNCHANGED <<apiVars, configVars, listenerVars, dailyClosesCache, lastRefresh, nRuns>>

(***************************************************************************)
(* getRecent and the routes GET /api/analysis/recent and /latest.          *)
(***************************************************************************)
\* req.query.limit: absent, not a number, or an integer
Absent == [t |-> "absent"]
NotANumber == [t |-> "nan"]
Integer(n) == [t |-> "int", n |-> n]

Min2(a, b) == IF a <= b THEN a ELSE b

\* Math.min(parseInt(req.query.limit) || 10, 50)
RouteLimit(q) ==
    Min2(IF q.t # "int" \/ q.n = 0 THEN DefaultLimit ELSE q.n, RecentCap)

\* { id: d.id, ...d.data() }
Row(entry) == Obj(Spread([id |-> Num(entry.id)], entry.doc.f))

RECURSIVE NewestFirst(_)
NewestFirst(stored) ==
    IF stored = << >> THEN << >>
    ELSE <<Row(stored[Len(stored)])>>
         \o NewestFirst(SubSeq(stored, 1, Len(stored) - 1))

\* the query without its limit
QueryRecent_NoLimit(stored, n) == NewestFirst(stored)

\* orderBy("timestamp", "desc").limit(n).get() when the store answers: the
\* documents were added in the order of their timestamps
QueryRecent(stored, n) ==
    IF n < 1 THEN << >>
    ELSE NewestFirst(SubSeq(stored, Max({1, Len(stored) - n + 1}), Len(stored)))

\* the response of the route to what getRecent returned or threw
Answered(a, ret) ==
    [a EXCEPT !.pc = "answered", !.returned = ret,
              !.status = IF ret.thrown THEN 500 ELSE 200,
              !.body = IF ret.thrown THEN [error |-> ret.error]
                       ELSE IF a.route = "recent"
                       THEN [analyses |-> ret.analyses, count |-> Len(ret.analyses)]
                       ELSE [latest |-> IF ret.analyses = << >> THEN Null
                                        ELSE ret.analyses[1]]]

\* getRecent(limit) up to its query
getRecent(a, database) ==
    IF ~database
    THEN Answered(a, [thrown |-> FALSE, analyses |-> << >>,
                      error |-> "firestore_not_available"])
    ELSE [a EXCEPT !.pc = "query"]

\* GET /api/analysis/recent?limit=q
RecentRoute(q) ==
    /\ running
    /\ api.pc # "query"
    /\ api' = getRecent([IdleApi EXCEPT !.route = "recent", !.asked = q,
                                        !.limit = RouteLimit(q)], db)
    /\ UNCHANGED <<configVars, promptCache, running, listenerVars, cacheVars, runVars>>

\* GET /api/analysis/latest
LatestRoute ==
    /\ running
    /\ api.pc # "query"
    /\ api' = getRecent([IdleApi EXCEPT !.route = "latest", !.limit = 1], db)
    /\ UNCHANGED <<configVars, promptCache, running, listenerVars, cacheVars, runVars>>

\* the get of the query settles
QuerySettles(ok) ==
    /\ running
    /\ api.pc = "query"
    /\ api' = IF ok
              THEN Answered(api, [thrown |-> FALSE,
                                  analyses |-> QueryRecent(store,
                                                  Min2(api.limit, RecentCap)),
                                  error |-> "none"])
              ELSE Answered([api EXCEPT !.queryFailed = TRUE],
                            [thrown |-> TRUE, analyses |-> << >>,
                             error |-> "QueryError"])
    /\ UNCHANGED <<configVars, promptCache, running, listenerVars, cacheVars, runVars>>

\* The pipeline with the data service up: concurrent runs, every pull
\* answered, every asset answered alike within one refresh.
SteadyMinute(a) == {Answer(Window(a))}
UniformDaily ==
    {[a \in Assets |-> Failed], [a \in Assets |-> Answer(UnsortedDaily(a))]}

Next ==
    \/ CronTick
    \/ ManualTrigger
    \/ \E r \in Runs, a \in Assets : \E ans \in SteadyMinute(a) : PullSettles(r, a, ans)
    \/ \E f \in refreshes, resp \in UniformDaily : RefreshSettles(f, resp)
    \/ \E f \in refreshes, resp \in UniformDaily : LazyRefreshSettles(f, resp)
    \/ \E r \in Runs : \E ans \in CompletionAnswers : LLMSettles(r, ans)
    \/ \E r \in Runs, ok \in BOOLEAN : StoreSettles(r, ok)

Spec == Init /\ [][Next]_vars

(***************************************************************************)
(* Specifications of one part each.  Each keeps the rest of the process    *)
(* quiet and widens what its part is handed.                               *)
(***************************************************************************)
\* the store and the credential are there
InitUp == Init /\ db /\ apiKey

AllAnswered == {[a \in Assets |-> Answer(UnsortedDaily(a))]}

\* one run, led up to its completion call
OneRunToCompletion ==
    \/ Trigger("manual", 1)
    \/ \E r \in Runs, a \in Assets : \E ans \in SteadyMinute(a) : PullSettles(r, a, ans)
    \/ \E f \in refreshes, resp \in AllAnswered : RefreshSettles(f, resp)
    \/ \E f \in refreshes, resp \in AllAnswered : LazyRefreshSettles(f, resp)

\* Extraction: the completion is any text of at most MaxText tokens.
Alphabet ==
    {FenceJson, Fence, Ws, Prose, LBrace, RBrace, GoodVerdict, Null}
AllTexts == UNION {[1..n -> Alphabet] : n \in 0..MaxText}

NextParse ==
    \/ OneRunToCompletion
    \/ \E r \in Runs, text \in AllTexts : LLMSettles(r, Answer(text))
    \/ \E r \in Runs : StoreSettles(r, TRUE)

SpecParse == InitUp /\ [][NextParse]_vars

\* Fenced completions: the completion is made of at most MaxSegments
\* segments, each some prose (with or without a brace) or a fenced block
\* labelled json whose interior is valid JSON or is not; or a valid object
\* between braces of prose.
FencedBlock(x) == <<FenceJson, Ws, x, Ws, Fence>>
Segments ==
    {<<Prose>>, <<LBrace, Prose>>, <<Prose, RBrace>>, <<GoodVerdict>>}
        \cup {FencedBlock(x) : x \in {GoodVerdict, LooseVerdict, Null, Prose, LBrace}}
SegmentedTexts ==
    UNION {{Concat(ss) : ss \in [1..n -> Segments]} : n \in 1..MaxSegments}

NextFenced ==
    \/ OneRunToCompletion
    \/ \E r \in Runs, text \in SegmentedTexts : LLMSettles(r, Answer(text))
    \/ \E r \in Runs : StoreSettles(r, TRUE)

SpecFenced == InitUp /\ [][NextFenced]_vars

\* Validation: the completion is one JSON value, an object with any subset
\* of the required fields, each of any of the kinds below.
FieldValues(k) ==
    CASE k = "score" ->
            {Num(0), Num(1), Num(100), Num(101), NumHalf(1), NumHalf(100),
             Infinity, Str("8"), Null}
      [] k = "analysis" -> {Str("not a peak"), Num(0)}
      [] k = "reasoning" -> {Str("because")}
      [] OTHER -> {Arr(<<Str("mvrv")>>), Arr(<< >>), Str("mvrv"), Null}
RequiredSet == {Required[i] : i \in 1..Len(Required)}
AllFieldValues == UNION {FieldValues(k) : k \in RequiredSet}
WideVerdicts ==
    UNION { {Obj(f) : f \in {g \in [S -> AllFieldValues] :
                                \A k \in S : g[k] \in FieldValues(k)}}
            : S \in SUBSET RequiredSet }
WideValues == WideVerdicts \cup {Arr(<< >>)}

NextValidate ==
    \/ OneRunToCompletion
    \/ \E r \in Runs, v \in WideValues : LLMSettles(r, Answer(<<v>>))
    \/ \E r \in Runs : StoreSettles(r, TRUE)

SpecValidate == InitUp /\ [][NextValidate]_vars

\* The lazy fill: one run whose daily reads find the series there or empty,
\* a refresh failing, or answered with a series or with none per asset.  A
\* request of a refresh settles within its timeout.
GetDaily ==
    {[a \in Assets |-> Failed]}
    \cup { [a \in Assets |-> IF a \in S THEN Answer(UnsortedDaily(a))
                                        ELSE Answer(<< >>)] : S \in SUBSET Assets }

LazySettle == \E f \in refreshes, resp \in GetDaily : LazyRefreshSettles(f, resp)

NextGet ==
    \/ Trigger("cron", 1)
    \/ \E r \in Runs, a \in Assets : \E ans \in SteadyMinute(a) : PullSettles(r, a, ans)
    \/ \E f \in refreshes, resp \in GetDaily : RefreshSettles(f, resp)
    \/ LazySettle

SpecGet == Init /\ [][NextGet]_vars /\ WF_vars(LazySettle)

\* The refresh under each of its callers: the startup call, the timer and
\* the daily reads of one run.
NextRefresh ==
    \/ NextGet
    \/ TimerRefresh

SpecRefresh == Init /\ [][NextRefresh]_vars

\* The routes over a store that holds the documents of earlier runs: fewer
\* than the cap of the query, as many, or more.
StoredBefore(n) ==
    [i \in 1..n |-> [id |-> i, by |-> 0, doc |-> StoredDoc(Enriched(GoodVerdict))]]
StoredSizes == {0, 1, RecentCap, MaxStored}
InitRecent == \E n \in StoredSizes : Boot(StoredBefore(n))

QueryLimits ==
    {Absent, NotANumber} \cup {Integer(n) : n \in {-1, 0, 1, 2, 50, 51, 1000}}

NextRecent ==
    \/ \E q \in QueryLimits : RecentRoute(q)
    \/ LatestRoute
    \/ \E ok \in BOOLEAN : QuerySettles(ok)

SpecRecent == InitRecent /\ [][NextRecent]_vars

\* Collection: one run, each of its pulls failing or answered.
NextCollect ==
    \/ Trigger("cron", 1)
    \/ \E r \in Runs, a \in Assets : \E ans \in MinuteAnswers(a) : PullSettles(r, a, ans)
    \/ \E f \in refreshes, resp \in UniformDaily : RefreshSettles(f, resp)
    \/ \E f \in refreshes, resp \in UniformDaily : LazyRefreshSettles(f, resp)
    \/ \E r \in Runs : \E ans \in CompletionAnswers : LLMSettles(r, ans)
    \/ \E r \in Runs, ok \in BOOLEAN : StoreSettles(r, ok)

SpecCollect == Init /\ [][NextCollect]_vars

\* The listener: every inbound event, beside one run that reads the
\* snapshot while it builds its prompt data.
NextListener ==
    \/ \E data \in FeedDocuments : OnSnapshot(TRUE, data)
    \/ OnSnapshot(FALSE, << >>)
    \/ OnSnapshotError
    \/ Cleanup
    \/ OneRunToCompletion

SpecListener == Init /\ [][NextListener]_vars

\* The readers: one run reading the snapshot and the daily series while
\* the feed pushes documents and refreshes, answered differently from one to
\* the next, replace the series.
ReaderDaily ==
    {[a \in Assets |-> Failed], [a \in Assets |-> Answer(UnsortedDaily(a))],
     [a \in Assets |-> Answer(LongDaily(a))]}

NextReaders ==
    \/ \E data \in FeedDocuments : OnSnapshot(TRUE, data)
    \/ OnSnapshot(FALSE, << >>)
    \/ OnSnapshotError
    \/ Trigger("cron", 1)
    \/ \E r \in Runs, a \in Assets : \E ans \in SteadyMinute(a) : PullSettles(r, a, ans)
    \/ TimerRefresh
    \/ \E f \in refreshes, resp \in ReaderDaily : RefreshSettles(f, resp)
    \/ \E f \in refreshes, resp \in ReaderDaily : LazyRefreshSettles(f, resp)

SpecReaders == InitUp /\ [][NextReaders]_vars

\* The summary: the feed has pushed any document of at most two indicators,
\* each field of an indicator absent or present (a value may be 0), or a
\* document with no indicator, before one run builds its payload.
PartialIndicator(fields) ==
    Obj([k \in {k \in DOMAIN fields : fields[k] # Undefined} |-> fields[k]])

PartialIndicators ==
    { PartialIndicator([indicator_name |-> n, hit_status |-> h,
                        current_value |-> v, threshold |-> th]) :
        n \in {Str("mvrv"), Undefined}, h \in {Bool(TRUE), Bool(FALSE), Undefined},
        v \in {Num(3), Num(0), Undefined}, th \in {Num(2), Undefined} }

SummaryDocuments ==
    { [indicators |-> Arr(<<i>>)] : i \in PartialIndicators }
    \cup { [indicators |-> Arr(<<Indicator("pi_cycle", TRUE, 3, 2), i>>)] :
              i \in PartialIndicators }
    \cup { [indicators |-> Arr(<< >>)], [timestamp |-> Str("t3")],
           [indicators |-> Str("none")] }

NextSummary ==
    \/ nRuns = 0 /\ \E data \in SummaryDocuments : OnSnapshot(TRUE, data)
    \/ nRuns = 0 /\ OnSnapshot(FALSE, << >>)
    \/ OneRunToCompletion

SpecSummary == InitUp /\ [][NextSummary]_vars

\* The recent windows: the pull of each asset fails or is answered with a
\* window of minute points, bare or under prices or data, short, as long as
\* stride times cap, or longer; or with something that holds no sequence.
Points(n) == Arr([i \in 1..n |-> Num(i)])

WindowLengths ==
    {0, 1, MinuteStride - 1, MinuteStride, MinuteStride + 1, 2 * MinuteStride + 1,
     MinuteStride * MinuteCap, MinuteStride * MinuteCap + 1, LongWindow}

Shaped(shape, n) ==
    CASE shape = "bare" -> Points(n)
      [] shape = "prices" -> Obj([prices |-> Points(n)])
      [] OTHER -> Obj([data |-> Points(n), symbol |-> Str("x")])

NoSequence == {Null, Str("unavailable"), Obj([error |-> Str("no data")])}

WideMinute(a) ==
    IF a = "bitcoin"
    THEN {Failed} \cup {Answer(v) : v \in NoSequence}
            \cup {Answer(Shaped("bare", n)) : n \in WindowLengths}
    ELSE IF a = "ethereum"
    THEN {Answer(Shaped("prices", n)) : n \in {0, MinuteStride + 1}}
    ELSE {Answer(Shaped("data", n)) : n \in {0, MinuteStride + 1}}

NextSeries ==
    \/ Trigger("cron", 1)
    \/ \E r \in Runs, a \in Assets : \E ans \in WideMinute(a) : PullSettles(r, a, ans)
    \/ \E f \in refreshes, resp \in AllAnswered : RefreshSettles(f, resp)
    \/ \E f \in refreshes, resp \in AllAnswered : LazyRefreshSettles(f, resp)

SpecSeries == InitUp /\ [][NextSeries]_vars

\* The prompt manager: the template file holds any text of at most
\* MaxTemplate pieces, and callLLM is handed any data object of the entries
\* a and b whose values are strings (plain, or holding a dollar pattern or
\* the placeholder of b), an array of strings or a number.
TemplatePieces ==
    {Chunk(Str("text")), Hole("a"), Hole("b"), Hole("unmatched"), DollarDollar}
Templates == UNION {[1..n -> TemplatePieces] : n \in 0..MaxTemplate}

PayloadValues ==
    {Chars(<<Chunk(Str("plain"))>>), Chars(<<Chunk(Str("cost ")), DollarAmp>>),
     Chars(<<DollarDollar>>), Chars(<<Hole("b")>>),
     Arr(<<Chars(<<Chunk(Str("x"))>>), Chars(<<Chunk(Str("y"))>>)>>), Num(0)}
Payloads ==
    { [t |-> "object", entries |-> << <<"a", v>> >>] : v \in PayloadValues }
    \cup { [t |-> "object", entries |-> << <<"a", v>>, <<"b", w>> >>] :
              v \in PayloadValues, w \in {Chars(<<Chunk(Str("second"))>>), Num(0)} }

\* callLLM(templateData) entered with the data object handed in
CallLLMWith(r, data) ==
    /\ running
    /\ r = nRuns + 1
    /\ nRuns' = nRuns + 1
    /\ Moved(r, callLLM([IdleRun EXCEPT !.templateData = data], apiKey))
    /\ UNCHANGED <<apiVars, configVars, listenerVars, dailyClosesCache, lastRefresh,
                   store>>

InitRender == \E file \in Templates : BootWith(<< >>, file) /\ db /\ apiKey

NextRender == \E r \in Runs, data \in Payloads : CallLLMWith(r, data)

SpecRender == InitRender /\ [][NextRender]_vars

\* The cache: the startup refresh and the timer's, each request of a refresh
\* failing or answered.
NextCache ==
    \/ TimerRefresh
    \/ \E f \in refreshes, resp \in CuratedDaily : RefreshSettles(f, resp)

SpecCache == Init /\ [][NextCache]_vars

\* The daily series: the startup refresh, one asset answered with any raw
\* series of at most MaxRaw points, the others with none.
FieldCombos ==
    { <<"c1", "absent", "absent">>, <<"nan", "absent", "absent">>,
      <<"absent", "p1", "absent">>, <<"absent", "absent", "k1">>,
      <<"absent", "absent", "absent">>, <<"nan", "p1", "absent">> }
RawPoints ==
    {RawPoint(ts, f[1], f[2], f[3]) : ts \in 1..MaxTs, f \in FieldCombos}
RawSeries == UNION {[1..n -> RawPoints] : n \in 0..MaxRaw}
WideDaily ==
    { [a \in Assets |-> IF a = x THEN Answer(raw) ELSE Answer(<< >>)] :
        x \in Assets, raw \in RawSeries }

NextDaily ==
    \E f \in refreshes, resp \in WideDaily : RefreshSettles(f, resp)

SpecDaily == InitUp /\ [][NextDaily]_vars

(***************************************************************************)
(* Properties of the pipeline (Spec).                                      *)
(***************************************************************************)
\* the run has received a completion text
GotCompletion(run) ==
    /\ run.pc \in {"store", "done"}
    /\ run.error \notin {"TransportError", "OpenRouter API key not configured",
                          "PullError"}

\* the text yields no parseable JSON, or an object that fails validation
BadOutput(text) ==
    \/ ~parseJsonFromText(text).ok
    \/ validateOutput(parseJsonFromText(text).value) # "ok"

StoredBy(r) == {i \in 1..Len(store) : store[i].by = r}

\* C1: a run whose completion text yields no parseable JSON, or an object
\* that fails validation, reports failure, and no document of the store was
\* added by it.
C1_NothingStoredOnBadOutput ==
    \A r \in Runs :
        (GotCompletion(runs[r]) /\ BadOutput(runs[r].aiText)) =>
            /\ runs[r].pc = "done"
            /\ ~runs[r].outcome.success
            /\ runs[r].outcome.storage = Undefined
            /\ StoredBy(r) = {}

\* the store is up and holds the result of one run, one run has ended on
\* prose without JSON, or on a verdict that fails validation
C1_Witness ==
    /\ db
    /\ \E r \in Runs :
          /\ runs[r].pc = "done"
          /\ runs[r].error \in {"No JSON found in AI response",
                                 "score must be 1..100 number"}
          /\ \E q \in Runs \ {r} : StoredBy(q) # {}

\* C2: once the completion has succeeded and its output validates, the run
\* is reported successful however the store behaves, and an unavailable
\* store shows as storage.stored = false.
C2_BestEffortPersistence ==
    \A r \in Runs :
        (runs[r].pc = "done" /\ GotCompletion(runs[r]) /\ ~BadOutput(runs[r].aiText)) =>
            /\ runs[r].outcome.success
            /\ StoredBy(r) = {} => runs[r].outcome.storage.stored = FALSE

IsString(v) == v.t = "str"
IsInteger(v) == v.t = "num" /\ v.fin /\ ~v.frac

\* C5: every document of the store has an integer score in 1..100, strings
\* as analysis and reasoning, and a sequence of strings as key_factors.
C5_StoredResultsWellTyped ==
    \A i \in 1..Len(store) :
        LET d == store[i].doc.f IN
        /\ IsInteger(d["score"]) /\ d["score"].n >= 1 /\ d["score"].n <= 100
        /\ IsString(d["analysis"])
        /\ IsString(d["reasoning"])
        /\ IsArray(d["key_factors"])
        /\ \A j \in 1..Len(d["key_factors"].e) : IsString(d["key_factors"].e[j])

\* the step that ends run r in failure leaves the store, the other runs and
\* the listener as they were
FailureIsLocal ==
    \A r \in Runs :
        (runs[r].pc # "done" /\ runs'[r].pc = "done" /\ ~runs'[r].outcome.success) =>
            /\ store' = store
            /\ \A q \in Runs \ {r} : runs'[q] = runs[q]
            /\ UNCHANGED listenerVars

\* C10: a run's failure is caught by its trigger: the process and its
\* schedule stay up, the next cron tick and the next manual trigger start a
\* new run, and the failing step changes nothing the later runs read.
C10_FailureDoesNotStopLaterRuns ==
    /\ [](running /\ (nRuns < MaxRuns => (ENABLED CronTick /\ ENABLED ManualTrigger)))
    /\ [][FailureIsLocal]_vars

\* a run triggered after another had failed has succeeded
C10_Witness ==
    \E r \in Runs :
        /\ runs[r].pc = "done"
        /\ runs[r].outcome.success
        /\ runs[r].priorFailures > 0

(***************************************************************************)
(* Properties of the extraction (SpecParse).                               *)
(***************************************************************************)
\* the candidates of a text that exist, in the order they are tried
Candidates(text) ==
    LET fenced == FencedMatch(text)
        first == FirstBrace(text)
        last == LastBrace(text)
    IN  (IF fenced.found THEN <<fenced.interior>> ELSE << >>)
        \o <<text>>
        \o (IF first # 0 /\ last # 0 /\ last >= first
            THEN <<SubSeq(text, first, last)>> ELSE << >>)

\* the parse of the first candidate that is parseable JSON
FirstParseable(text) ==
    LET cs == Candidates(text)
        S == {i \in 1..Len(cs) : JSONparse(cs[i]).ok}
    IN  IF S = {} THEN Thrown("No JSON found in AI response")
        ELSE Returned(JSONparse(cs[Min(S)]).value)

\* C3: the extraction tries the interior of the fenced block labelled json,
\* then the whole text, then the substring from the first opening brace to
\* the last closing brace, and returns the parse of the first of them that
\* is parseable JSON; a candidate that does not parse is skipped.
C3_FirstParseableCandidate ==
    \A r \in Runs :
        (GotCompletion(runs[r]) /\ FirstParseable(runs[r].aiText).ok) =>
            runs[r].parsed = FirstParseable(runs[r].aiText).value

(***************************************************************************)
(* Properties of the validation (SpecValidate).                            *)
(***************************************************************************)
Keys(v) == IF v.t = "obj" THEN DOMAIN v.f ELSE {}

ScoreInRange(x) ==
    /\ x.t = "num"
    /\ x.fin
    /\ x.n >= 1
    /\ (x.n < 100 \/ (x.n = 100 /\ ~x.frac))

WellFormed(v) ==
    /\ RequiredSet \subseteq Keys(v)
    /\ ScoreInRange(v.f["score"])
    /\ v.f["key_factors"].t = "arr"

\* the error e names field k, and k is what is wrong with v
Names(v, e, k) ==
    \/ k \notin Keys(v) /\ e = "Missing: " \o k
    \/ /\ k = "score"
       /\ k \in Keys(v)
       /\ ~ScoreInRange(v.f[k])
       /\ e = "score must be 1..100 number"
    \/ /\ k = "key_factors"
       /\ k \in Keys(v)
       /\ v.f[k].t # "arr"
       /\ e = "key_factors must be array"

\* C4: a parsed object or sequence is accepted if and only if score,
\* analysis, reasoning and key_factors are all present, score is a finite
\* number from 1 to 100 and key_factors is a sequence; every other one ends
\* the run with an error that names a field at fault.
C4_ValidationAcceptsExactlyWellFormed ==
    \A r \in Runs :
        (GotCompletion(runs[r]) /\ runs[r].parsed # Undefined
            /\ runs[r].parsed.t \in {"obj", "arr"}) =>
            IF WellFormed(runs[r].parsed)
            THEN /\ runs[r].error = "none"
                 /\ runs[r].pc = "done" => runs[r].outcome.success
            ELSE /\ runs[r].pc = "done"
                 /\ ~runs[r].outcome.success
                 /\ \E k \in RequiredSet : Names(runs[r].parsed, runs[r].error, k)

\* a verdict of score 100 without its key_factors has been rejected for the
\* missing field
C4_Witness ==
    \E r \in Runs :
        /\ runs[r].pc = "done"
        /\ runs[r].parsed # Undefined
        /\ Keys(runs[r].parsed) = RequiredSet \ {"key_factors"}
        /\ runs[r].parsed.f["score"] = Num(100)
        /\ runs[r].error = "Missing: key_factors"

(***************************************************************************)
(* Properties of the collection (SpecCollect).                             *)
(***************************************************************************)
\* C8: whichever pulls fail, fetchCryptoMinuteSeries returns: null for the
\* assets whose pull failed, the fetched window for every other asset, and
\* no run ends on a failed pull.
C8_CollectIsolatesFailures ==
    \A r \in Runs :
        /\ runs[r].error # "PullError"
        /\ runs[r].pc = "pulls" => \E a \in Assets : runs[r].pulls[a].st = "pending"
        /\ runs[r].minuteSeries # Undefined =>
              \A a \in Assets :
                 /\ runs[r].pulls[a].st = "settled"
                 /\ ~runs[r].pulls[a].ans.ok => runs[r].minuteSeries.of[a] = Null
                 /\ runs[r].pulls[a].ans.ok => runs[r].minuteSeries.of[a] = Window(a)

\* one pull has failed, and the run holds the windows of the two others
C8_Witness ==
    \E r \in Runs :
        /\ runs[r].minuteSeries # Undefined
        /\ Cardinality({a \in Assets : ~runs[r].pulls[a].ans.ok}) = 1
        /\ Cardinality({a \in Assets : runs[r].minuteSeries.of[a] = Window(a)}) = 2

(***************************************************************************)
(* Properties of the listener (SpecListener).                              *)
(***************************************************************************)
\* C9: after an event the snapshot is the contents of the document of that
\* event plus the identifier of the document, or null when the document
\* does not exist or the event is an error.
C9_SnapshotIsContentsPlusIdentifier ==
    IF lastEvent.kind = "document"
    THEN /\ latestData.t = "obj"
         /\ DOMAIN latestData.f = DOMAIN lastEvent.data \cup {"id"}
         /\ latestData.f["id"] = Str(lastEvent.id)
         /\ \A k \in DOMAIN lastEvent.data \ {"id"} :
               latestData.f[k] = lastEvent.data[k]
    ELSE latestData = Null

(***************************************************************************)
(* Properties of the cache of daily closes (SpecCache, SpecDaily).         *)
(***************************************************************************)
\* C6: after a refresh, the cached series of each asset whose request was
\* answered is the mapped series of that answer, whatever became of the
\* requests of the other assets.
C6_AnsweredAssetsAreReplaced ==
    lastRefresh.id # 0 =>
        \A a \in Assets :
            lastRefresh.resp[a].ok =>
                dailyClosesCache[a] = mapDailyClose(lastRefresh.resp[a].data)

\* the points of a raw series whose close is a finite number
ValidPoints(raw) == {i \in 1..Len(raw) : FiniteClose(Coalesce(raw[i]))}

\* C7: the cached series of every asset has at most DailyCap points, is
\* strictly ascending by timestamp, holds no point without a finite close,
\* and the cap is applied to the points that are left by the filter.
C7_CachedSeriesStrictlyAscending ==
    \A a \in Assets :
        LET s == dailyClosesCache[a]
            raw == lastRefresh.resp[a].data
        IN  /\ Len(s) <= DailyCap
            /\ \A i \in 1..Len(s) : FiniteClose(s[i].close)
            /\ Len(s) = Min({DailyCap, Cardinality(ValidPoints(raw))})
            /\ \A i, j \in 1..Len(s) : i < j => s[i].timestamp < s[j].timestamp

(***************************************************************************)
(* Properties of concurrent runs (Spec).                                   *)
(***************************************************************************)
StoredOk(r) ==
    /\ runs[r].pc = "done"
    /\ runs[r].outcome.success
    /\ runs[r].outcome.storage.stored

\* C11: nothing excludes a run while another is in flight: both triggers
\* stay enabled; each run holds its own pulls and its own completion call;
\* and every run that succeeded with the store up has its own document in
\* the store, which no other run has overwritten.
C11_ConcurrentRunsStoreSeparately ==
    /\ (RunsInFlight # {} /\ nRuns < MaxRuns) =>
            (ENABLED CronTick /\ ENABLED ManualTrigger)
    /\ \A i, j \in 1..Len(store) : store[i].id = store[j].id => i = j
    /\ \A r \in Runs :
          StoredOk(r) =>
             /\ Cardinality(StoredBy(r)) = 1
             /\ \A i \in StoredBy(r) :
                   /\ store[i].id = runs[r].outcome.storage.id
                   /\ store[i].doc = StoredDoc(runs[r].outcome.analysis)

\* a manual run and a scheduled run, one triggered while the other was in
\* flight, have both succeeded and the store holds the document of each
C11_Witness ==
    \E r, q \in Runs :
        /\ runs[r].trigger = "cron" /\ runs[q].trigger = "manual"
        /\ runs[r].inFlightAtStart + runs[q].inFlightAtStart > 0
        /\ StoredOk(r) /\ StoredOk(q)
        /\ Len(store) = 2
        /\ StoredBy(r) # StoredBy(q)

\* the stages a run may pass from and to
StageEdges ==
    { <<"idle", "pulls">>, <<"pulls", "refresh">>, <<"pulls", "llm">>,
      <<"pulls", "done">>, <<"refresh", "llm">>, <<"refresh", "done">>,
      <<"llm", "store">>, <<"llm", "done">>, <<"store", "done">> }

PayloadBuilt(run) ==
    /\ run.templateData # Undefined
    /\ run.minuteSeries # Undefined
    /\ \A a \in Assets : run.pulls[a].st = "settled"
    /\ run.getting = 0

StagesInOrder ==
    \A r \in Runs :
        /\ runs[r].templateData # Undefined => PayloadBuilt(runs[r])
        /\ runs[r].prompt # Undefined =>
              /\ PayloadBuilt(runs[r])
              /\ runs[r].prompt = getFilledPrompt(runs[r].templateData)
        /\ runs[r].pc = "llm" => runs[r].prompt # Undefined
        /\ runs[r].parsed # Undefined =>
              parseJsonFromText(runs[r].aiText) = Returned(runs[r].parsed)
        /\ (runs[r].pc = "store" \/ StoredBy(r) # {}) =>
              /\ runs[r].parsed # Undefined
              /\ validateOutput(runs[r].parsed) = "ok"

StageStep ==
    /\ \A r \in Runs :
          runs'[r].pc # runs[r].pc => <<runs[r].pc, runs'[r].pc>> \in StageEdges
    /\ store' # store =>
          \E r \in Runs :
             /\ runs[r].pc = "store"
             /\ Len(store') = Len(store) + 1
             /\ SubSeq(store', 1, Len(store)) = store
             /\ store'[Len(store')].by = r

\* C12: within a run the prompt is rendered only from a payload that is
\* fully built (every pull settled, every daily read done), the completion
\* call is in flight only with the rendered prompt, validation applies to
\* what the extraction returned, and the store is written only by a run
\* whose output has validated; a run passes its stages in order.
C12_StagesStrictlyOrdered == []StagesInOrder /\ [][StageStep]_vars

\* the completion call of a run is in flight, with the prompt rendered from
\* a payload holding the daily series of every asset
C12_Witness ==
    \E r \in Runs :
        /\ runs[r].pc = "llm"
        /\ runs[r].prompt # Undefined
        /\ \A a \in Assets : runs[r].daily[a] # << >>

(***************************************************************************)
(* Properties of the lazy fill (SpecGet).                                  *)
(***************************************************************************)
\* the run has the return value of getCachedDailyCloses of asset i
HasRead(run, i) ==
    \/ run.templateData # Undefined
    \/ run.pc = "refresh" /\ run.getting > i

OwnedRefreshes(r) == {f \in refreshes : f.owner = r}

GetRefreshesAtMostOnce ==
    \A r \in Runs :
        /\ \A i \in 1..Len(AssetOrder) :
              /\ runs[r].refreshCalls[AssetOrder[i]] <= 1
              /\ (HasRead(runs[r], i) /\ runs[r].refreshCalls[AssetOrder[i]] = 0) =>
                    runs[r].daily[AssetOrder[i]] # << >>
        /\ runs[r].pc = "refresh" =>
              /\ runs[r].getting \in 1..Len(AssetOrder)
              /\ runs[r].refreshCalls[AssetOrder[runs[r].getting]] = 1
              /\ Cardinality(OwnedRefreshes(r)) = 1

GetReturnsCacheAsItStands ==
    \A r \in Runs :
        \A i \in 1..Len(AssetOrder) :
            /\ (runs[r].pc = "refresh" /\ runs[r].getting = i /\ runs'[r] # runs[r]) =>
                  /\ ~(runs'[r].pc = "refresh" /\ runs'[r].getting = i)
                  /\ runs'[r].pc # "done" =>
                        runs'[r].daily[AssetOrder[i]] = dailyClosesCache'[AssetOrder[i]]
            /\ (~HasRead(runs[r], i) /\ HasRead(runs'[r], i)) =>
                  runs'[r].daily[AssetOrder[i]] = dailyClosesCache'[AssetOrder[i]]

\* C13: getCachedDailyCloses awaits no refresh when the series of its asset
\* is not empty and one refresh when it is empty, never a second; it returns
\* the series as the cache holds it when the refresh has settled, empty or
\* not; and it returns whether the refresh fails or not.
C13_GetRefreshesOnceAndReturns ==
    /\ []GetRefreshesAtMostOnce
    /\ [][GetReturnsCacheAsItStands]_vars
    /\ \A r \in Runs : \A i \in 1..Len(AssetOrder) :
          (runs[r].pc = "refresh" /\ runs[r].getting = i)
              ~> ~(runs[r].pc = "refresh" /\ runs[r].getting = i)

\* a run has built its payload: the refresh awaited for bitcoin failed and
\* left its series empty, and the series of solana was read with no refresh
C13_Witness ==
    \E r \in Runs :
        /\ runs[r].templateData # Undefined
        /\ runs[r].refreshCalls["bitcoin"] = 1
        /\ runs[r].daily["bitcoin"] = << >>
        /\ runs[r].refreshCalls["solana"] = 0
        /\ runs[r].daily["solana"] # << >>

(***************************************************************************)
(* Properties of the refresh (SpecRefresh).                                *)
(***************************************************************************)
TotalFailure(resp) == \A a \in Assets : ~resp[a].ok

\* the refresh that settles in this step, if one does, had every request
\* fail
TotalFailureSettles ==
    /\ lastRefresh' # lastRefresh
    /\ TotalFailure(lastRefresh'.resp)

FailedRefreshChangesNothing ==
    TotalFailureSettles =>
        /\ dailyClosesCache' = dailyClosesCache
        /\ running'
        /\ store' = store
        /\ \A r \in Runs :
              /\ runs'[r].error \in {"none", "OpenRouter API key not configured"}
              /\ OwnedRefreshes(r) = {} => runs'[r] = runs[r]
              /\ (\E f \in OwnedRefreshes(r) : f.id = lastRefresh'.id) =>
                    ~(runs'[r].pc = "refresh" /\ runs'[r].getting = runs[r].getting)

\* C14: a refresh whose every request fails throws nothing at its caller:
\* the process stays up after the startup call and the timer, the run that
\* awaited it goes on; and it leaves the series of every asset and
\* lastFetchedAt as they were.
C14_TotalFailureLeavesCacheUntouched == [][FailedRefreshChangesNothing]_vars

\* a refresh has filled the cache and a later one has failed on every
\* request: the series are still there
C14_Witness ==
    /\ lastRefresh.id > 1
    /\ TotalFailure(lastRefresh.resp)
    /\ dailyClosesCache.lastFetchedAt = 1
    /\ dailyClosesCache["bitcoin"] # << >>

(***************************************************************************)
(* Properties of the failures of the extraction (SpecParse).               *)
(***************************************************************************)
\* the errors parseJsonFromText throws for a text without structured output
NoStructuredOutput == {"Empty AI response", "No JSON found in AI response"}

\* C15: a run whose completion text has no candidate that is parseable
\* JSON fails with the error for a text without structured output, and
\* with no other.
C15_OnlyNoStructuredOutput ==
    \A r \in Runs :
        (GotCompletion(runs[r]) /\ ~FirstParseable(runs[r].aiText).ok) =>
            /\ ~runs[r].outcome.success
            /\ runs[r].error \in NoStructuredOutput

(***************************************************************************)
(* Properties of a process without its credential (Spec).                  *)
(***************************************************************************)
ConfigurationError == "OpenRouter API key not configured"

\* C16: without the key no run issues a completion call or stores
\* anything, every run that ends has failed with the configuration error,
\* and the process and both triggers go on.
C16_NoCredentialFailsEachRunOnly ==
    ~apiKey =>
        /\ running
        /\ store = << >>
        /\ nRuns < MaxRuns => (ENABLED CronTick /\ ENABLED ManualTrigger)
        /\ \A r \in Runs :
              /\ runs[r].pc \notin {"llm", "store"}
              /\ runs[r].prompt = Undefined
              /\ runs[r].aiText = << >>
              /\ runs[r].pc = "done" =>
                    /\ ~runs[r].outcome.success
                    /\ runs[r].outcome.error = ConfigurationError

\* without the key one run has failed and a run triggered after it is in
\* flight
C16_Witness ==
    /\ ~apiKey
    /\ \E r, q \in Runs :
          /\ runs[r].pc = "done"
          /\ runs[r].error = ConfigurationError
          /\ runs[q].priorFailures > 0
          /\ runs[q].pc \in {"pulls", "refresh"}

(***************************************************************************)
(* Properties of the metadata of a result (SpecCollect).                   *)
(***************************************************************************)
SourceName(a) ==
    CASE a = "bitcoin" -> "BTC" [] a = "ethereum" -> "ETH" [] OTHER -> "SOL"

\* the sources that supplied data to the payload of a run: the snapshot
\* when it is not the no-data placeholder, an asset when its window or its
\* daily series is there
Supplied(run) ==
    (IF run.templateData.bull_market_peak_raw = Obj([note |-> Str("no_bull_peak_data")])
     THEN {} ELSE {"BULL_PEAK"})
    \cup {SourceName(a) : a \in {b \in Assets : \/ run.minuteSeries.of[b] # Null
                                                \/ run.daily[b] # << >>}}

\* the sources the metadata of a result lists
DataSources(analysis) ==
    LET l == analysis.f["analysis_metadata"].f["data_sources"].e
    IN  {l[i].s : i \in 1..Len(l)}

DegradedRunListsItsSources ==
    \A r \in Runs :
        (runs[r].pc = "llm" /\ runs'[r].pc = "done"
            /\ ~BadOutput(runs'[r].aiText) /\ runs'[r].aiText # << >>) =>
            /\ runs'[r].outcome.success
            /\ DataSources(runs'[r].outcome.analysis) = Supplied(runs[r])

\* C17: a run that completes and validates reports success, and the
\* sources its metadata lists are the sources that supplied data to its
\* payload.
C17_MetadataListsSuppliedSources == [][DegradedRunListsItsSources]_vars

(***************************************************************************)
(* Properties of the routes (SpecRecent).                                  *)
(***************************************************************************)
RecentAnswered == api.pc = "answered" /\ api.route = "recent"

\* C18: whatever limit the caller asks for, getRecent returns at most
\* RecentCap results, and at most n for a limit n from 1 to RecentCap; the
\* route answers with the same.
C18_RecentIsClamped ==
    RecentAnswered =>
        /\ Len(api.returned.analyses) <= RecentCap
        /\ (api.asked.t = "int" /\ api.asked.n >= 1 /\ api.asked.n <= RecentCap) =>
              Len(api.returned.analyses) <= api.asked.n
        /\ api.status = 200 => api.body.analyses = api.returned.analyses

\* the store holds more than RecentCap documents and a request for a
\* thousand is answered with RecentCap of them
C18_Witness ==
    /\ RecentAnswered
    /\ Len(store) > RecentCap
    /\ api.asked = Integer(1000)
    /\ api.status = 200
    /\ Len(api.body.analyses) = RecentCap

\* C19: when the store is not initialised or fails on the query, getRecent
\* throws nothing and returns no results with an error marker, and the
\* latest route answers null.
C19_RecentDegradesSoftly ==
    (api.pc = "answered" /\ (~db \/ api.queryFailed)) =>
        /\ ~api.returned.thrown
        /\ api.returned.analyses = << >>
        /\ api.returned.error # "none"
        /\ api.route = "latest" => (api.status = 200 /\ api.body.latest = Null)

(***************************************************************************)
(* Properties of the listener after an error (SpecListener).               *)
(***************************************************************************)
\* while the subscription is registered after an error, the next event may
\* be any document
ListeningAfterError ==
    (lastEvent.kind = "error" /\ "BULL_PEAK" \in listeners /\ nEvents < MaxEvents) =>
        \A data \in FeedDocuments : ENABLED OnSnapshot(TRUE, data)

ErrorKeepsSubscription ==
    /\ (nEvents' = nEvents + 1 /\ lastEvent'.kind = "error") =>
          /\ listeners' = listeners
          /\ "BULL_PEAK" \in listeners'
          /\ latestData' = Null
    /\ (nEvents' = nEvents + 1 /\ lastEvent.kind = "error"
           /\ lastEvent'.kind = "document") =>
          /\ latestData' # Null
          /\ latestData'.t = "obj"
          /\ \A k \in DOMAIN lastEvent'.data : latestData'.f[k] = lastEvent'.data[k]

\* C20: an error event sets the snapshot to null and leaves the
\* subscription registered; until cleanup the next event is still
\* delivered, and a document it carries becomes the snapshot.
C20_ErrorDoesNotEndSubscription ==
    []ListeningAfterError /\ [][ErrorKeepsSubscription]_vars

\* the event after an error carried a document, which is the snapshot
C20_Witness ==
    /\ lastEvent.kind = "document"
    /\ lastEvent.after = "error"
    /\ "BULL_PEAK" \in listeners
    /\ latestData # Null

(***************************************************************************)
(* C21: cleanup() is idempotent.                                           *)
(***************************************************************************)
\* after any cleanup() the table is empty and the subscription, if one was
\* established, has been cancelled once
TornDownOnce ==
    teardown.calls >= 1 =>
        /\ listeners = {}
        /\ teardown.unsubscribed = IF db THEN 1 ELSE 0

\* the first cleanup() cancels what the table holds; a further one cancels
\* nothing and changes nothing
TeardownStep ==
    teardown'.calls = teardown.calls + 1 =>
        /\ listeners' = {}
        /\ IF teardown.calls = 0
           THEN teardown'.unsubscribed = Cardinality(listeners)
           ELSE /\ teardown'.unsubscribed = teardown.unsubscribed
                /\ listeners' = listeners
        /\ UNCHANGED <<apiVars, configVars, promptCache, running, latestData, nEvents,
                       lastEvent, cacheVars, runVars>>

\* C21: the first cleanup() cancels the subscription exactly once and
\* empties the listener table; any further cleanup() cancels nothing and
\* leaves the state as the first left it; with no subscription established
\* (no store) cleanup() cancels nothing and completes.
C21_TeardownIsIdempotent ==
    /\ [](TornDownOnce /\ teardown.unsubscribed <= 1)
    /\ [][TeardownStep]_vars

\* cleanup() has been called twice on an established subscription
C21_Witness ==
    /\ db
    /\ teardown.calls = 2
    /\ teardown.unsubscribed = 1
    /\ listeners = {}

(***************************************************************************)
(* C22: the external calls of one run (SpecGet).                           *)
(***************************************************************************)
\* the requests GET /<a>/daily?days=900 one run has issued: every refresh
\* its daily reads have awaited issues one request per asset, whichever
\* asset the read was for
DailyFetches(run, a) ==
    run.refreshCalls[AssetOrder[1]] + run.refreshCalls[AssetOrder[2]]
        + run.refreshCalls[AssetOrder[3]]

\* C22: within one run no external call is issued twice, also when it
\* fails: the daily-series request of each asset is issued at most once.
\* (The three pulls, the completion call and the add are each issued at one
\* place of analyze(), once per run; the daily requests are the calls whose
\* number depends on the answers.)
C22_NoCallRepeatedWithinARun ==
    \A r \in Runs : \A a \in Assets : DailyFetches(runs[r], a) <= 1

(***************************************************************************)
(* C23: what readers see across a replacement (SpecReaders).               *)
(***************************************************************************)
\* v is the document d in full (beside the id of the listened document)
WholeDocument(v, d) ==
    /\ v # Null
    /\ DOMAIN v.f = DOMAIN d \cup {"id"}
    /\ \A k \in DOMAIN d : v.f[k] = d[k]

\* series is what one response for asset a normalises to
OneResponse(series, a) ==
    \E resp \in ReaderDaily : resp[a].ok /\ series = mapDailyClose(resp[a].data)

\* the snapshot and every series, as any reader may find them
HeldWhole ==
    /\ latestData = Null \/ \E d \in FeedDocuments : WholeDocument(latestData, d)
    /\ \A a \in Assets :
          dailyClosesCache[a] = << >> \/ OneResponse(dailyClosesCache[a], a)

\* what the run has read while it built its payload
ReadWhole ==
    \A r \in Runs :
        runs[r].templateData # Undefined =>
            /\ \/ runs[r].templateData.bull_market_peak_raw =
                      Obj([note |-> Str("no_bull_peak_data")])
               \/ \E d \in FeedDocuments :
                      WholeDocument(runs[r].templateData.bull_market_peak_raw, d)
            /\ \A a \in Assets :
                  runs[r].daily[a] = << >> \/ OneResponse(runs[r].daily[a], a)

\* a replacement puts the pushed document, or the responses of the one
\* refresh that settles, in place of what was held
ReplacedWhole ==
    /\ latestData' # latestData =>
          IF lastEvent'.kind = "document"
          THEN WholeDocument(latestData', lastEvent'.data)
          ELSE latestData' = Null
    /\ dailyClosesCache' # dailyClosesCache =>
          \A a \in Assets :
              dailyClosesCache'[a] = mapDailyClose(lastRefresh'.resp[a].data)

\* C23: a reader never finds a mixture: the snapshot is null or one pushed
\* document in full, and every series held or returned to a run is what one
\* refresh's response for that asset normalises to (or the initial empty
\* series), never points of two refreshes.
C23_ReadersSeeNoMixture ==
    /\ [](HeldWhole /\ ReadWhole)
    /\ [][ReplacedWhole]_vars

\* a run has read a document and a series while a second refresh, answered
\* differently, has since replaced the series it read
C23_Witness ==
    \E r \in Runs :
        /\ runs[r].templateData # Undefined
        /\ runs[r].templateData.bull_market_peak_raw # Obj([note |-> Str("no_bull_peak_data")])
        /\ runs[r].daily["bitcoin"] # << >>
        /\ dailyClosesCache["bitcoin"] # runs[r].daily["bitcoin"]
        /\ dailyClosesCache.lastFetchedAt >= 2

(***************************************************************************)
(* Properties of the indicator summary (SpecSummary).                      *)
(***************************************************************************)
\* the snapshot the payload of the run was built from: in SpecSummary the
\* feed is quiet once the run has started
SnapshotOf(run) ==
    IF run.templateData.bull_market_peak_raw = Obj([note |-> Str("no_bull_peak_data")])
    THEN Null
    ELSE run.templateData.bull_market_peak_raw

\* a field as the summary line is to show it: N/A when missing, else its
\* own value
ShownOrNA(ind, k) ==
    IF Field(ind, k) = Undefined THEN Str("N/A") ELSE Field(ind, k)

HasIndicators(doc) ==
    /\ doc # Null
    /\ IsArray(Field(doc, "indicators"))
    /\ Field(doc, "indicators").e # << >>

\* C24: for a snapshot with a non-empty indicator sequence the summary has
\* one line per indicator, in order, showing the name, the boolean hit
\* state, the value and the threshold; name, value and threshold show as
\* N/A when the field is missing and as the field's own value when it is
\* present, a value of 0 included.
C24_SummaryLinePerIndicator ==
    \A r \in Runs :
        (runs[r].templateData # Undefined /\ HasIndicators(SnapshotOf(runs[r]))) =>
            LET inds == Field(SnapshotOf(runs[r]), "indicators").e
                summary == runs[r].templateData.bull_market_peak_indicators
            IN  /\ summary.t = "lines"
                /\ Len(summary.lines) = Len(inds)
                /\ \A i \in 1..Len(inds) :
                      /\ summary.lines[i].name = ShownOrNA(inds[i], "indicator_name")
                      /\ summary.lines[i].hit = Bool(Field(inds[i], "hit_status") = Bool(TRUE))
                      /\ summary.lines[i].value = ShownOrNA(inds[i], "current_value")
                      /\ summary.lines[i].threshold = ShownOrNA(inds[i], "threshold")

\* the snapshot exists and its indicator field is absent or an empty sequence
NoIndicatorsIn(doc) ==
    /\ doc # Null
    /\ \/ Field(doc, "indicators") = Undefined
       \/ Field(doc, "indicators") = Arr(<< >>)

\* C25: when the snapshot is null, or exists with its indicator field
\* absent or an empty sequence, the payload's summary is the fixed sentence
\* that no indicators are available; and when the snapshot is null the
\* payload's raw-snapshot field is the placeholder structure, neither
\* omitted nor null.
C25_NoDataSummaryAndPlaceholder ==
    \A r \in Runs :
        runs[r].templateData # Undefined =>
            /\ (latestData = Null \/ NoIndicatorsIn(latestData)) =>
                  runs[r].templateData.bull_market_peak_indicators = NoIndicators
            /\ latestData = Null =>
                  /\ "bull_market_peak_raw" \in DOMAIN runs[r].templateData
                  /\ runs[r].templateData.bull_market_peak_raw =
                        Obj([note |-> Str("no_bull_peak_data")])

(***************************************************************************)
(* C26: the recent windows of the payload (SpecSeries).                    *)
(***************************************************************************)
\* of the points 1..n, those at the 0-based indices 0, 5, 10, ...: the last
\* 288 of them
LastSampled(n) ==
    LET m == (n + MinuteStride - 1) \div MinuteStride
        k == IF m <= MinuteCap THEN m ELSE MinuteCap
    IN  [j \in 1..k |-> Num(MinuteStride * (m - k + j - 1) + 1)]

IsMarker(rendering) == rendering.t = "insufficient_data"

WindowShapes == {"bare", "prices", "data"}

\* C26: a recent window of n >= 1 points is rendered as the serialisation of
\* the last 288 of its points at the indices divisible by 5, in order, hence
\* min(288, ceil(n/5)) points; an absent, non-sequence or empty window is
\* rendered as the insufficient-data marker, never as an empty structure.
C26_WindowIsDownSampled ==
    \A r \in Runs :
        runs[r].templateData # Undefined =>
            \A a \in Assets :
                LET ans == runs[r].pulls[a].ans
                    rendering == runs[r].templateData.recent_minutes_24h[a]
                IN  /\ \A shape \in WindowShapes, n \in WindowLengths :
                          ans = Answer(Shaped(shape, n)) =>
                              IF n >= 1
                              THEN /\ rendering = Stringify(Arr(LastSampled(n)))
                                   /\ Len(rendering.of.e) =
                                         Min({MinuteCap,
                                              (n + MinuteStride - 1) \div MinuteStride})
                              ELSE IsMarker(rendering)
                    /\ (ans = Failed \/ \E v \in NoSequence : ans = Answer(v)) =>
                          IsMarker(rendering)
                    /\ rendering # Stringify(Arr(<< >>))

\* a window longer than stride times cap has been rendered: the cap has cut
\* the first sampled points off
C26_Witness ==
    \E r \in Runs :
        /\ runs[r].templateData # Undefined
        /\ runs[r].pulls["bitcoin"].ans = Answer(Shaped("bare", LongWindow))
        /\ Len(runs[r].templateData.recent_minutes_24h["bitcoin"].of.e) = MinuteCap
        /\ runs[r].templateData.recent_minutes_24h["bitcoin"].of.e[1] # Num(1)
        /\ IsMarker(runs[r].templateData.recent_minutes_24h["ethereum"])

(***************************************************************************)
(* Properties of the prompt manager (SpecRender).                          *)
(***************************************************************************)
KeysOf(data) == {Entries(data)[i][1] : i \in DOMAIN Entries(data)}

ValueOf(data, k) ==
    LET i == CHOOSE i \in DOMAIN Entries(data) : Entries(data)[i][1] = k
    IN  Entries(data)[i][2]

\* the template with every placeholder of a key of the data object replaced
\* by the text of that field, and every other piece as it is
FilledAsClaimed(template, data) ==
    Concat([i \in DOMAIN template |->
              IF template[i].t = "hole" /\ template[i].k \in KeysOf(data)
              THEN ReplacementOf(ValueOf(data, template[i].k))
              ELSE <<template[i]>>])

\* C27: the prompt is the template with every occurrence of every
\* placeholder whose key is a field of the data object replaced by that
\* field's text (a scalar stringified, a structured value serialised), every
\* placeholder of another key and all other text left as it is, no error
\* raised; the data object and the cached template are not modified.
C27_RenderFillsPlaceholders ==
    \A r \in Runs :
        runs[r].pc = "llm" =>
            /\ runs[r].error = "none"
            /\ runs[r].prompt = FilledAsClaimed(promptFile, runs[r].templateData)
            /\ runs[r].templateData \in Payloads
            /\ promptCache[CacheKey] = promptFile

\* the names of the placeholders of a text
PlaceholderNames(text) == {text[i].k : i \in {i \in DOMAIN text : text[i].t = "hole"}}

\* the text of the field is in the prompt
InPrompt(prompt, v) ==
    \E i \in 1..(Len(prompt) - Len(ReplacementOf(v)) + 1) :
        SubSeq(prompt, i, i + Len(ReplacementOf(v)) - 1) = ReplacementOf(v)

\* C28: the placeholder names of the template are the field names of the
\* data object buildPromptData returns (timestamp, indicator summary, raw
\* snapshot, recent and daily series of each asset), so the prompt of a run
\* holds no unreplaced placeholder and the text of every field.
C28_PlaceholdersArePayloadFields ==
    \A r \in Runs :
        (runs[r].pc = "llm" /\ runs[r].templateData.t = "templateData") =>
            /\ PlaceholderNames(promptFile) = KeysOf(runs[r].templateData)
            /\ PlaceholderNames(runs[r].prompt) = {}
            /\ \A k \in KeysOf(runs[r].templateData) :
                  InPrompt(runs[r].prompt, ValueOf(runs[r].templateData, k))

(***************************************************************************)
(* Properties of the extraction on fenced completions (SpecFenced).        *)
(***************************************************************************)
\* the fenced blocks labelled json of a text whose interior is valid JSON:
\* <<opening, closing>> positions
ValidBlocks(text) ==
    {b \in (1..Len(text)) \X (1..Len(text)) :
        /\ b[1] < b[2]
        /\ text[b[1]] = FenceJson
        /\ text[b[2]] = Fence
        /\ \A k \in (b[1] + 1)..(b[2] - 1) : ~HasBackticks(text[k])
        /\ JSONparse(SubSeq(text, b[1] + 1, b[2] - 1)).ok}

InteriorParse(text, b) == JSONparse(SubSeq(text, b[1] + 1, b[2] - 1)).value

\* C29: when the completion contains a fenced block labelled json whose
\* interior is valid JSON, the extraction returns the parse of that block's
\* interior, whatever prose, braces included, precedes or follows it.
C29_FencedBlockIsExtracted ==
    \A r \in Runs :
        (GotCompletion(runs[r]) /\ ValidBlocks(runs[r].aiText) # {}) =>
            \E b \in ValidBlocks(runs[r].aiText) :
                runs[r].parsed = InteriorParse(runs[r].aiText, b)

\* the fenced blocks labelled json of a text: from an opening to the first
\* run of three backticks after it
Blocks(text) ==
    {b \in (1..Len(text)) \X (1..Len(text)) :
        /\ b[1] < b[2]
        /\ text[b[1]] = FenceJson
        /\ HasBackticks(text[b[2]])
        /\ \A k \in (b[1] + 1)..(b[2] - 1) : ~HasBackticks(text[k])}

FirstBlock(text) == CHOOSE b \in Blocks(text) : \A c \in Blocks(text) : b[1] <= c[1]

\* C29, amended: when the interior of the first fenced block labelled json
\* of the completion is valid JSON, the extraction returns the parse of
\* that interior, whatever precedes or follows the block: prose, braces,
\* further fenced blocks.
C29_FirstFencedBlockIsExtracted ==
    \A r \in Runs :
        (/\ GotCompletion(runs[r])
         /\ Blocks(runs[r].aiText) # {}
         /\ FirstBlock(runs[r].aiText) \in ValidBlocks(runs[r].aiText)) =>
            runs[r].parsed = InteriorParse(runs[r].aiText, FirstBlock(runs[r].aiText))

\* a completion of prose with a brace, a valid block and a second block of
\* another content has been extracted
C29_Witness ==
    \E r \in Runs :
        /\ GotCompletion(runs[r])
        /\ runs[r].aiText = <<LBrace, Prose>> \o FencedBlock(GoodVerdict)
                                \o FencedBlock(LooseVerdict)
        /\ runs[r].parsed = GoodVerdict

(***************************************************************************)
(* C30: brace slicing (SpecParse).                                         *)
(***************************************************************************)
\* words and white space: prose holds no brace and no backtick
IsProse(s) == \A i \in DOMAIN s : s[i] \in {Prose, Ws}

\* s is one JSON object between its braces
IsObjectText(s) ==
    /\ s # << >>
    /\ HasOpenBrace(s[1])
    /\ HasCloseBrace(s[Len(s)])
    /\ JSONparse(s).ok
    /\ JSONparse(s).value.t = "obj"

\* the ways to read a text as prose, one object, prose that is not empty:
\* <<first, last>> positions of the object
ObjectInProse(text) ==
    {b \in (1..Len(text)) \X (1..Len(text)) :
        /\ b[1] <= b[2]
        /\ b[2] < Len(text)
        /\ IsProse(SubSeq(text, 1, b[1] - 1))
        /\ IsObjectText(SubSeq(text, b[1], b[2]))
        /\ IsProse(SubSeq(text, b[2] + 1, Len(text)))}

CrowdedVerdict ==
    Obj(Spread(GoodVerdict.f,
               [analysis_metadata |-> Str("mine"), timestamp |-> Str("then"),
                service |-> Str("other")]))

ValidVerdicts ==
    { Verdict(s, Str("not a peak"), k) :
        s \in {Num(1), Num(8), Num(100), NumHalf(1)},
        k \in {Arr(<<Str("mvrv")>>), Arr(<< >>)} }
    \cup {CrowdedVerdict}

InitKeyed == Init /\ apiKey

NextStore ==
    \/ ManualTrigger
    \/ \E r \in Runs, a \in Assets : \E ans \in SteadyMinute(a) : PullSettles(r, a, ans)
    \/ \E f \in refreshes, resp \in AllAnswered : RefreshSettles(f, resp)
    \/ \E f \in refreshes, resp \in AllAnswered : LazyRefreshSettles(f, resp)
    \/ \E r \in Runs, v \in ValidVerdicts : LLMSettles(r, Answer(FencedBlock(v)))
    \/ \E r \in Runs, ok \in BOOLEAN : StoreSettles(r, ok)

SpecStore == InitKeyed /\ [][NextStore]_vars

\* the run has ended on a completion that is the fenced verdict v, with the
\* store there and its add fulfilled
EndedOnVerdict(r, v) ==
    /\ runs[r].pc = "done"
    /\ GotCompletion(runs[r])
    /\ runs[r].aiText = FencedBlock(v)
    /\ db
    /\ runs[r].error # "StoreError"

AllSources == Arr(<<Str("BULL_PEAK"), Str("BTC"), Str("ETH"), Str("SOL")>>)

\* the document is the verdict v with the metadata of the run and the
\* fields of storeResult
IsResultOf(doc, v) ==
    /\ doc.t = "obj"
    /\ \A k \in {"score", "analysis", "reasoning", "key_factors"} :
          k \in DOMAIN doc.f /\ doc.f[k] = v.f[k]
    /\ "analysis_metadata" \in DOMAIN doc.f
    /\ doc.f["analysis_metadata"].t = "obj"
    /\ DOMAIN doc.f["analysis_metadata"].f =
          {"model", "data_sources", "collection_duration_ms"}
    /\ doc.f["analysis_metadata"].f["model"] = Str("openai/gpt-5-mini")
    /\ doc.f["analysis_metadata"].f["data_sources"] = AllSources
    /\ {"timestamp", "createdAt", "service", "serviceVersion"} \subseteq DOMAIN doc.f
    /\ doc.f["service"] = Str("market-peak-analysis-service")
    /\ doc.f["serviceVersion"] = Str("1.0.0")

\* C31: a run whose completion is a valid fenced verdict with score s, with
\* the store available, has exactly one document in the store; the document
\* has score s and the verdict's analysis, reasoning and key_factors, the
\* metadata of the run (model, all four data sources, elapsed time) and the
\* fields timestamp, createdAt, service and serviceVersion.
C31_ValidVerdictIsStoredOnce ==
    \A r \in Runs : \A v \in ValidVerdicts :
        EndedOnVerdict(r, v) =>
            /\ Cardinality(StoredBy(r)) = 1
            /\ \A i \in StoredBy(r) : IsResultOf(store[i].doc, v)
            /\ runs[r].outcome.success

\* two runs have each ended on a fenced verdict, one of score 100 and one
\* bringing fields of its own, and the store holds one document of each
C31_Witness ==
    \E r, q \in Runs :
        /\ EndedOnVerdict(r, Verdict(Num(100), Str("not a peak"), Arr(<< >>)))
        /\ EndedOnVerdict(q, CrowdedVerdict)
        /\ Len(store) = 2
        /\ \E i \in StoredBy(q) : store[i].doc.f["score"] = Num(8)

(***************************************************************************)
(* Completions that are JSON but no object (SpecScalar): a number, a       *)
(* string, a boolean, null or an array, alone, between white space or in   *)
(* a fenced block; and a verdict for comparison.                           *)
(***************************************************************************)
NonObjects ==
    {Num(5), Str("high"), Bool(TRUE), Null, Arr(<< >>), Arr(<<Num(5)>>)}
ScalarTexts ==
    UNION { {<<v>>, <<Ws, v, Ws>>, FencedBlock(v)} : v \in NonObjects \cup {GoodVerdict} }

NextScalar ==
    \/ ManualTrigger
    \/ \E r \in Runs, a \in Assets : \E ans \in SteadyMinute(a) : PullSettles(r, a, ans)
    \/ \E f \in refreshes, resp \in AllAnswered : RefreshSettles(f, resp)
    \/ \E f \in refreshes, resp \in AllAnswered : LazyRefreshSettles(f, resp)
    \/ \E r \in Runs, text \in ScalarTexts : LLMSettles(r, Answer(text))
    \/ \E r \in Runs : StoreSettles(r, TRUE)

SpecScalar == InitUp /\ [][NextScalar]_vars

\* the messages of the errors validateOutput throws by itself
ValidationErrors ==
    {"Missing: " \o Required[i] : i \in 1..Len(Required)}
    \cup {"score must be 1..100 number", "key_factors must be array"}

\* the whole text is JSON and its value is no object
ParsesAsNonObject(text) ==
    JSONparse(text).ok /\ JSONparse(text).value.t # "obj"

\* C32: every value the extraction chain hands to validation is a JSON
\* object; a completion text that parses as a number, a string, a boolean,
\* null or an array ends its run in an error of validation or in the error
\* for a text without structured output, with nothing stored.
C32_OnlyObjectsReachValidation ==
    \A r \in Runs :
        GotCompletion(runs[r]) =>
            /\ runs[r].parsed # Undefined => runs[r].parsed.t = "obj"
            /\ ParsesAsNonObject(runs[r].aiText) =>
                  /\ runs[r].pc = "done"
                  /\ ~runs[r].outcome.success
                  /\ runs[r].error \in ValidationErrors \cup NoStructuredOutput
                  /\ StoredBy(r) = {}

(***************************************************************************)
(* The snapshot within one payload (SpecReaders).                          *)
(***************************************************************************)
\* C33: within one payload the summary is the rendering of the snapshot
\* held in the raw-snapshot field, or both are the no-data values, whatever
\* push events arrive while the payload is built.
C33_SummaryAndRawAreOneSnapshot ==
    \A r \in Runs :
        runs[r].templateData # Undefined =>
            runs[r].templateData.bull_market_peak_indicators =
                generateBullPeakSummary(SnapshotOf(runs[r]))

(***************************************************************************)
(* Overlapping refreshes (SpecReaders).  A refresh carries the number of   *)
(* its start; lastRefresh is the one that completed last.                  *)
(***************************************************************************)
Succeeded(resp) == \A a \in Assets : resp[a].ok

\* the step completes a refresh that was started before the refresh whose
\* answers the cache holds, and leaves every series as it was
EarlierDoesNotOverwrite ==
    \A f \in refreshes :
        (f \notin refreshes' /\ lastRefresh.id > f.id /\ Succeeded(lastRefresh.resp)) =>
            \A a \in Assets : dailyClosesCache'[a] = dailyClosesCache[a]

\* the three series are those of one refresh, the last that succeeded
SeriesOfOneRefresh ==
    Succeeded(lastRefresh.resp) =>
        \A a \in Assets : dailyClosesCache[a] = mapDailyClose(lastRefresh.resp[a].data)

\* C34: when refreshes overlap, a refresh that was started earlier and
\* completes later does not overwrite the series of a refresh started after
\* it, so that the cache ends with the series of the refresh started last;
\* and the three series always come from one refresh.
C34_LastStartedRefreshWins ==
    /\ [][EarlierDoesNotOverwrite]_vars
    /\ []SeriesOfOneRefresh

(***************************************************************************)
(* Substitution in one pass (SpecRender).                                  *)
(***************************************************************************)
\* the template with each placeholder of a key of the data object replaced
\* by what replace() puts in for that field, the text put in not looked at
\* again
SubstitutedAtOnce(template, data) ==
    Concat([i \in DOMAIN template |->
              IF template[i].t = "hole" /\ template[i].k \in KeysOf(data)
              THEN Expand(ReplacementOf(ValueOf(data, template[i].k)), template[i])
              ELSE <<template[i]>>])

\* C35: rendering is a simultaneous substitution: the text put in for one
\* field is not scanned for placeholders, so a value that holds the
\* placeholder of another field is in the prompt as it stands, and the
\* prompt does not depend on the order of the fields.
C35_SubstitutionIsSimultaneous ==
    \A r \in Runs :
        runs[r].pc = "llm" =>
            runs[r].prompt = SubstitutedAtOnce(promptFile, runs[r].templateData)

=============================================================================
